---- MODULE Spec2Model ----
(***************************************************************************)
(* Education-portal backend: the admin API (src/routes/admin.js), the      *)
(* public read API (src/routes/api.js) and the schema the persistence      *)
(* gateway creates (config/database.js, src/unnamed/part_000).             *)
(*                                                                         *)
(* Encoding.  A nullable SQL column and a possibly-undefined JS value are  *)
(* both a set with at most one element: {} is NULL / undefined, {v} is v.  *)
(* A string the code inspects (an author, a LIKE pattern) is a sequence of *)
(* one-character strings; other strings are TLA+ strings.                  *)
(***************************************************************************)
EXTENDS Integers, Sequences, FiniteSets, TLC

VARIABLES
  admins,        \* admins table: set of rows
  categories,    \* categories table
  materials,     \* materials table
  videos,        \* videos table
  autoInc,       \* AUTO_INCREMENT counter of each table
  authorColumn,  \* whether the materials table has an author column
  now,           \* wall clock, in hours
  held,          \* the tokens clients hold from successful logins
  req,           \* the request handled last
  resp,          \* the response to it
  pc,            \* position of each in-flight POST /init handler
  boot,          \* the server process: position in startServer, exit code, listening
  schema,        \* the database objects that exist in the store
  sqlMode        \* the SQL mode of the store's sessions

vars == <<admins, categories, materials, videos, autoInc, authorColumn,
          now, held, req, resp, pc, boot, schema, sqlMode>>

tables == <<admins, categories, materials, videos>>

----------------------------------------------------------------------------
\* Nullable values

NULL == {}

Some(v) == {v}

Val(o) == CHOOSE v \in o : TRUE

\* JS truthiness of a possibly-undefined value: undefined is falsy, and so are
\* the empty string and the number 0.
TruthyStr(o) == o # {} /\ o # {""}

TruthySeq(o) == o # {} /\ o # {<<>>}

TruthyNum(o) == o # {} /\ o # {0}

----------------------------------------------------------------------------
\* Configuration (process.env with the code's fallbacks)

JWT_SECRET == "jwt-secret"

ADMIN_EMAIL == "admin@breastcancer.com"

ADMIN_PASSWORD == "admin123"

\* jwt.sign(..., { expiresIn: '24h' }), in hours
expiresIn == 24

\* bcrypt cost factor
bcryptCost == 12

----------------------------------------------------------------------------
\* bcryptjs: a salted one-way hash.  The digest binds salt and password; the
\* salt is drawn at random by hash() and stored in the hash string.

Salts == {"salt1", "salt2"}

bcryptHash(password, cost, salt) ==
  [alg |-> "bcrypt", cost |-> cost, salt |-> salt, digest |-> <<salt, cost, password>>]

bcryptCompare(password, hash) ==
  hash.digest = <<hash.salt, hash.cost, password>>

----------------------------------------------------------------------------
\* jsonwebtoken: a token is its claims plus a MAC of the claims under the
\* signing secret.

NoClaims == [id |-> 0, email |-> "", iat |-> 0, exp |-> 0]

jwtMac(secret, claims) ==
  <<secret, claims.id, claims.email, claims.iat, claims.exp>>

jwtSignShortLived(payload, secret, ttl, t) ==
  LET claims == [id |-> payload.id, email |-> payload.email,
                 iat |-> t, exp |-> t + 1]
  IN  [format |-> "jwt", claims |-> claims, sig |-> jwtMac(secret, claims)]

jwtSign(payload, secret, ttl, t) ==
  LET claims == [id |-> payload.id, email |-> payload.email,
                 iat |-> t, exp |-> t + ttl]
  IN  [format |-> "jwt", claims |-> claims, sig |-> jwtMac(secret, claims)]

\* jwt.verify with the option ignoreExpiration
jwtVerifyIgnoreExpiration(token, secret, t) ==
  IF token.format # "jwt"
    THEN [err |-> "jwt malformed", user |-> NoClaims]
  ELSE IF token.sig # jwtMac(secret, token.claims)
    THEN [err |-> "invalid signature", user |-> NoClaims]
  ELSE [err |-> "", user |-> token.claims]

\* jwt.verify(token, secret, cb): cb(err, user)
jwtVerify(token, secret, t) ==
  IF token.format # "jwt"
    THEN [err |-> "jwt malformed", user |-> NoClaims]
  ELSE IF token.sig # jwtMac(secret, token.claims)
    THEN [err |-> "invalid signature", user |-> NoClaims]
  ELSE IF t >= token.claims.exp
    THEN [err |-> "jwt expired", user |-> NoClaims]
  ELSE [err |-> "", user |-> token.claims]

\* Words of an Authorization header that are not tokens
SchemeWord == [format |-> "Bearer", claims |-> NoClaims, sig |-> <<>>]

EmptyWord == [format |-> "", claims |-> NoClaims, sig |-> <<>>]

GarbageToken == [format |-> "garbage", claims |-> NoClaims, sig |-> <<>>]

NoHeader == <<>>

\* `Authorization: Bearer <token>`; a header is the list authHeader.split(' ')
Bearer(token) == <<SchemeWord, token>>

----------------------------------------------------------------------------
\* authenticateToken(req, res, next).  The outcome is either a response
\* (status 401 / 403) or next() with req.user set.

Gate401 == [next |-> FALSE, status |-> 401,
            body |-> [error |-> "Access token required"], user |-> NULL]

Gate403 == [next |-> FALSE, status |-> 403,
            body |-> [error |-> "Invalid or expired token"], user |-> NULL]

authenticateTokenNoVerify(header, t) ==
  LET token == IF Len(header) >= 2 THEN Some(header[2]) ELSE NULL
  IN  IF token = NULL \/ token = Some(EmptyWord)
        THEN Gate401
        ELSE [next |-> TRUE, status |-> 200, body |-> [error |-> ""],
              user |-> Some(Val(token).claims)]

authenticateToken(header, t) ==
  LET token == IF Len(header) >= 2 THEN Some(header[2]) ELSE NULL
  IN  IF token = NULL \/ token = Some(EmptyWord)
        THEN Gate401
        ELSE LET v == jwtVerify(Val(token), JWT_SECRET, t)
             IN  IF v.err # ""
                   THEN Gate403
                   ELSE [next |-> TRUE, status |-> 200, body |-> [error |-> ""],
                         user |-> Some(v.user)]

----------------------------------------------------------------------------
\* The store.  Schema as created by initDatabase: admins.email is UNIQUE,
\* materials.category_id and videos.category_id reference categories(id)
\* ON DELETE SET NULL, status is ENUM('published','draft').

StatusEnum == {"published", "draft"}

\* sql_mode with STRICT_TRANS_TABLES (the default of the store) and without
StrictMode == "STRICT_TRANS_TABLES"

SqlModes == {StrictMode, ""}

\* a value written to the status column is refused in strict mode when it is
\* not a member of the ENUM
enumRejects(value) == sqlMode = StrictMode /\ value \notin StatusEnum

\* the value the status column holds after a write that was not refused: a
\* non-member is replaced by the error value ''
enumStored(value) == IF value \in StatusEnum THEN value ELSE ""

\* UNIQUE KEY on admins.email
adminsEmailUnique(email) == \A a \in admins : a.email # email

\* FOREIGN KEY (category_id) REFERENCES categories(id)
categoryFkHolds(category_id) ==
  category_id = NULL \/ \E c \in categories : c.id = Val(category_id)

\* DELETE FROM categories WHERE id = ? : the referencing rows of a child table
\* after the delete (ON DELETE SET NULL)
onDeleteSetNull(rows, id) ==
  { IF r.category_id = Some(id) THEN [r EXCEPT !.category_id = NULL] ELSE r
    : r \in rows }

----------------------------------------------------------------------------
\* Ungated admin routes

OkResp(body) == [status |-> 200, body |-> body]

ErrResp(status, msg) == [status |-> status, body |-> [error |-> msg]]

AuthFrame ==
  UNCHANGED <<categories, materials, videos, authorColumn, now, pc, boot, schema, sqlMode>>

\* GET /check
getCheck ==
  /\ req' = [route |-> "GET /check"]
  /\ resp' = OkResp([hasAdmin |-> Cardinality(admins) > 0,
                     count |-> Cardinality(admins)])
  /\ UNCHANGED <<admins, autoInc, held>>
  /\ AuthFrame

\* POST /init, first statement: SELECT id FROM admins LIMIT 1
initSelect == IF admins = {} THEN 0 ELSE 1

\* POST /init, second statement: INSERT INTO admins (email, password, name)
initInsertUnchecked(email) == TRUE

initInsertOk(email) == adminsEmailUnique(email)

initInsertRow(email, hashedPassword) ==
  [id |-> autoInc.admins, email |-> email, password |-> hashedPassword,
   name |-> "Administrator"]

\* POST /init with `existing` the rows its SELECT returned
initRespond(existing, salt) ==
  IF existing > 0
    THEN /\ resp' = OkResp([message |-> "Admin already exists",
                            adminExists |-> TRUE, count |-> existing])
         /\ UNCHANGED <<admins, autoInc>>
    ELSE IF initInsertOk(ADMIN_EMAIL)
      THEN /\ admins' = admins \cup
                 {initInsertRow(ADMIN_EMAIL,
                                bcryptHash(ADMIN_PASSWORD, bcryptCost, salt))}
           /\ autoInc' = [autoInc EXCEPT !.admins = @ + 1]
           /\ resp' = OkResp([message |-> "Default admin created successfully",
                              adminId |-> autoInc.admins, email |-> ADMIN_EMAIL,
                              tempPassword |-> ADMIN_PASSWORD])
      ELSE /\ resp' = ErrResp(500, "Failed to create admin")
           /\ UNCHANGED <<admins, autoInc>>

\* POST /init handled without interleaving
postInit(salt) ==
  /\ req' = [route |-> "POST /init"]
  /\ initRespond(initSelect, salt)
  /\ UNCHANGED held
  /\ AuthFrame

\* POST /login: the response; a token is issued on success
loginResponseTellsWhich(body, t) ==
  IF ~TruthyStr(body.email) \/ ~TruthyStr(body.password)
    THEN ErrResp(400, "Email and password are required")
  ELSE LET rows == {a \in admins : a.email = Val(body.email)}
       IN  IF rows = {}
             THEN ErrResp(404, "Admin not found")
           ELSE LET admin == CHOOSE a \in rows : TRUE
                IN  IF ~bcryptCompare(Val(body.password), admin.password)
                      THEN ErrResp(401, "Invalid email or password")
                      ELSE OkResp([success |-> TRUE,
                                   token |-> jwtSign([id |-> admin.id, email |-> admin.email],
                                                     JWT_SECRET, expiresIn, t),
                                   admin |-> [id |-> admin.id, email |-> admin.email,
                                              name |-> admin.name]])

loginResponse(body, t) ==
  IF ~TruthyStr(body.email) \/ ~TruthyStr(body.password)
    THEN ErrResp(400, "Email and password are required")
  ELSE LET rows == {a \in admins : a.email = Val(body.email)}
       IN  IF rows = {}
             THEN ErrResp(401, "Invalid email or password")
           ELSE LET admin == CHOOSE a \in rows : TRUE
                IN  IF ~bcryptCompare(Val(body.password), admin.password)
                      THEN ErrResp(401, "Invalid email or password")
                      ELSE OkResp([success |-> TRUE,
                                   token |-> jwtSign([id |-> admin.id, email |-> admin.email],
                                                     JWT_SECRET, expiresIn, t),
                                   admin |-> [id |-> admin.id, email |-> admin.email,
                                              name |-> admin.name]])

postLogin(body) ==
  LET r == loginResponse(body, now)
  IN  /\ req' = [route |-> "POST /login", body |-> body]
      /\ resp' = r
      /\ held' = IF r.status = 200 THEN held \cup {r.body.token} ELSE held
      /\ UNCHANGED <<admins, autoInc>>
      /\ AuthFrame

\* POST /reset-password
postResetPassword(body, salt) ==
  /\ req' = [route |-> "POST /reset-password", body |-> body]
  /\ IF ~TruthyStr(body.email) \/ ~TruthyStr(body.newPassword)
       THEN /\ resp' = ErrResp(400, "Email and new password are required")
            /\ UNCHANGED admins
       ELSE LET hashedPassword == bcryptHash(Val(body.newPassword), bcryptCost, salt)
                affected == {a \in admins : a.email = Val(body.email)}
            IN  /\ admins' = { IF a \in affected
                                 THEN [a EXCEPT !.password = hashedPassword]
                                 ELSE a : a \in admins }
                /\ resp' = IF affected = {}
                             THEN ErrResp(404, "Admin not found")
                             ELSE OkResp([message |-> "Password updated successfully"])
  /\ UNCHANGED <<autoInc, held>>
  /\ AuthFrame

\* GET /stats (gated, read-only)
getStats(header) ==
  LET g == authenticateToken(header, now)
  IN  /\ req' = [route |-> "GET /stats", header |-> header, at |-> now, user |-> g.user]
      /\ resp' = IF g.next
                   THEN OkResp([materials |-> Cardinality(materials),
                                videos |-> Cardinality(videos),
                                categories |-> Cardinality(categories)])
                   ELSE [status |-> g.status, body |-> g.body]
      /\ UNCHANGED <<admins, autoInc, held>>
      /\ AuthFrame

----------------------------------------------------------------------------
\* multer: upload.single('image'), upload.fields([video, thumbnail])

\* fileFilter(req, file, cb): TRUE when the file is accepted
\* a fileFilter that calls cb(null, true) for every file
fileFilterAcceptAll(file) == TRUE

fileFilter(file) ==
  IF file.fieldname = "video"
    THEN file.mimetype.type = "video"
  ELSE IF file.fieldname = "image" \/ file.fieldname = "thumbnail"
    THEN file.mimetype.type = "image"
  ELSE TRUE

\* storage.filename: fieldname + '-' + uniqueSuffix + path.extname(originalname)
filename(file) == <<file.fieldname, "-", file.uniqueSuffix, file.ext>>

\* the multer middleware over the uploaded files of a request (a set of
\* files, at most one per field): TRUE when it calls next() without an error
uploadAccepts(files) == \A f \in files : fileFilter(f)

\* error handling middleware of server.js
ErrorMiddlewareResp == ErrResp(500, "Something went wrong!")

FileOf(files, field) == {f \in files : f.fieldname = field}

GateResp(g) == [status |-> g.status, body |-> g.body]

CrudFrame == UNCHANGED <<admins, authorColumn, now, held, pc, boot, schema, sqlMode>>

----------------------------------------------------------------------------
\* Categories CRUD

\* GET /categories
getCategories(header) ==
  LET g == authenticateToken(header, now)
  IN  /\ req' = [route |-> "GET /categories", header |-> header, at |-> now, user |-> g.user]
      /\ resp' = IF g.next THEN OkResp(categories) ELSE GateResp(g)
      /\ UNCHANGED <<categories, materials, videos, autoInc>>
      /\ CrudFrame

\* POST /categories
postCategories(header, body) ==
  LET g == authenticateToken(header, now)
  IN  /\ req' = [route |-> "POST /categories", header |-> header, at |-> now, body |-> body,
                 user |-> g.user]
      /\ IF ~g.next
           THEN /\ resp' = GateResp(g)
                /\ UNCHANGED <<categories, autoInc>>
         ELSE IF body.name = {} \/ body.description = {}
           THEN /\ resp' = ErrResp(500, "Failed to create category")
                /\ UNCHANGED <<categories, autoInc>>
         ELSE /\ categories' = categories \cup
                    {[id |-> autoInc.categories, name |-> Val(body.name),
                      description |-> body.description]}
              /\ autoInc' = [autoInc EXCEPT !.categories = @ + 1]
              /\ resp' = OkResp([id |-> autoInc.categories, name |-> body.name,
                                 description |-> body.description])
      /\ UNCHANGED <<materials, videos>>
      /\ CrudFrame

\* PUT /categories/:id
putCategories(header, id, body) ==
  LET g == authenticateToken(header, now)
  IN  /\ req' = [route |-> "PUT /categories/:id", header |-> header, at |-> now, id |-> id,
                 body |-> body, user |-> g.user]
      /\ IF ~g.next
           THEN /\ resp' = GateResp(g)
                /\ UNCHANGED categories
         ELSE IF body.name = {} \/ body.description = {}
           THEN /\ resp' = ErrResp(500, "Failed to update category")
                /\ UNCHANGED categories
         ELSE /\ categories' =
                    { IF c.id = id
                        THEN [c EXCEPT !.name = Val(body.name),
                                       !.description = body.description]
                        ELSE c : c \in categories }
              /\ resp' = OkResp([id |-> id, name |-> body.name,
                                 description |-> body.description])
      /\ UNCHANGED <<materials, videos, autoInc>>
      /\ CrudFrame

\* DELETE FROM categories WHERE id = ? under the schema's foreign keys
deleteCategoryCascade(rows, id) == {r \in rows : r.category_id # Some(id)}

deleteCategoryRows(rows, id) ==
  IF \E c \in categories : c.id = id THEN onDeleteSetNull(rows, id) ELSE rows

\* DELETE /categories/:id
deleteCategories(header, id) ==
  LET g == authenticateToken(header, now)
  IN  /\ req' = [route |-> "DELETE /categories/:id", header |-> header, at |-> now, id |-> id,
                 user |-> g.user]
      /\ IF ~g.next
           THEN /\ resp' = GateResp(g)
                /\ UNCHANGED <<categories, materials, videos>>
           ELSE /\ categories' = {c \in categories : c.id # id}
                /\ materials' = deleteCategoryRows(materials, id)
                /\ videos' = deleteCategoryRows(videos, id)
                /\ resp' = OkResp([message |-> "Category deleted successfully"])
      /\ UNCHANGED autoInc
      /\ CrudFrame

----------------------------------------------------------------------------
\* Materials CRUD

ImagePath(file) == <<"/uploads/images/", filename(file)>>

VideoPath(file) == <<"/uploads/videos/", filename(file)>>

\* const image = req.file ? `/uploads/images/${req.file.filename}` : null
materialImageOnCreate(files) ==
  LET f == FileOf(files, "image")
  IN  IF f # {} THEN Some(ImagePath(Val(f))) ELSE NULL

\* the image column after PUT /materials/:id: `if (image) query += ', image = ?'`
materialImageAlwaysSet(stored, files) ==
  LET f == FileOf(files, "image")
  IN  IF f # {} THEN Some(ImagePath(Val(f))) ELSE NULL

materialImageOnUpdate(stored, files) ==
  LET f == FileOf(files, "image")
  IN  IF f # {} THEN Some(ImagePath(Val(f))) ELSE stored

\* status || 'published'
statusOrDefault(status) == IF TruthyStr(status) THEN Val(status) ELSE "published"

\* pool.execute of the materials INSERT / UPDATE fails when a bind parameter is
\* undefined, when the table has no author column, or when a constraint of the
\* schema is violated
materialsWriteFails(body) ==
  \/ body.title = {} \/ body.content = {}
  \/ ~authorColumn
  \/ enumRejects(statusOrDefault(body.status))

materialFkFails(body) ==
  ~categoryFkHolds(IF TruthyNum(body.category_id) THEN body.category_id ELSE NULL)

materialColumns(body) ==
  [title |-> Val(body.title), content |-> Val(body.content),
   author |-> IF TruthySeq(body.author) THEN body.author ELSE NULL,
   category_id |-> IF TruthyNum(body.category_id) THEN body.category_id ELSE NULL,
   status |-> enumStored(statusOrDefault(body.status))]

\* GET /materials (admin list: every status)
getMaterials(header) ==
  LET g == authenticateToken(header, now)
  IN  /\ req' = [route |-> "GET /materials", header |-> header, at |-> now, user |-> g.user]
      /\ resp' = IF g.next THEN OkResp(materials) ELSE GateResp(g)
      /\ UNCHANGED <<categories, materials, videos, autoInc>>
      /\ CrudFrame

\* POST /materials
postMaterials(header, body, files) ==
  LET g == authenticateToken(header, now)
      image == materialImageOnCreate(files)
  IN  /\ req' = [route |-> "POST /materials", header |-> header, at |-> now, body |-> body,
                 files |-> files, user |-> g.user]
      /\ IF ~g.next
           THEN /\ resp' = GateResp(g)
                /\ UNCHANGED <<materials, autoInc>>
         ELSE IF ~uploadAccepts(files)
           THEN /\ resp' = ErrorMiddlewareResp
                /\ UNCHANGED <<materials, autoInc>>
         ELSE IF materialsWriteFails(body) \/ materialFkFails(body)
           THEN /\ resp' = ErrResp(500, "Failed to create material")
                /\ UNCHANGED <<materials, autoInc>>
         ELSE LET c == materialColumns(body)
                  row == [id |-> autoInc.materials, title |-> c.title,
                          content |-> c.content, author |-> c.author,
                          category_id |-> c.category_id, image |-> image,
                          status |-> c.status, created_at |-> now]
              IN  /\ materials' = materials \cup {row}
                  /\ autoInc' = [autoInc EXCEPT !.materials = @ + 1]
                  /\ resp' = OkResp([id |-> row.id, title |-> body.title,
                                     content |-> body.content, author |-> body.author,
                                     category_id |-> body.category_id,
                                     image |-> image,
                                     status |-> statusOrDefault(body.status)])
      /\ UNCHANGED <<categories, videos>>
      /\ CrudFrame

\* PUT /materials/:id
putMaterials(header, id, body, files) ==
  LET g == authenticateToken(header, now)
      matched == {m \in materials : m.id = id}
  IN  /\ req' = [route |-> "PUT /materials/:id", header |-> header, at |-> now, id |-> id,
                 body |-> body, files |-> files, user |-> g.user]
      /\ IF ~g.next
           THEN /\ resp' = GateResp(g)
                /\ UNCHANGED materials
         ELSE IF ~uploadAccepts(files)
           THEN /\ resp' = ErrorMiddlewareResp
                /\ UNCHANGED materials
         ELSE IF materialsWriteFails(body) \/ (matched # {} /\ materialFkFails(body))
           THEN /\ resp' = ErrResp(500, "Failed to update material")
                /\ UNCHANGED materials
         ELSE LET c == materialColumns(body)
              IN  /\ materials' =
                        { IF m.id = id
                            THEN [m EXCEPT !.title = c.title, !.content = c.content,
                                           !.author = c.author,
                                           !.category_id = c.category_id,
                                           !.status = c.status,
                                           !.image = materialImageOnUpdate(m.image, files)]
                            ELSE m : m \in materials }
                  /\ resp' = OkResp([id |-> id, title |-> body.title,
                                     content |-> body.content, author |-> body.author,
                                     category_id |-> body.category_id,
                                     image |-> materialImageOnCreate(files),
                                     status |-> body.status])
      /\ UNCHANGED <<categories, videos, autoInc>>
      /\ CrudFrame

\* DELETE /materials/:id
deleteMaterials(header, id) ==
  LET g == authenticateToken(header, now)
  IN  /\ req' = [route |-> "DELETE /materials/:id", header |-> header, at |-> now, id |-> id,
                 user |-> g.user]
      /\ IF ~g.next
           THEN /\ resp' = GateResp(g)
                /\ UNCHANGED materials
           ELSE /\ materials' = {m \in materials : m.id # id}
                /\ resp' = OkResp([message |-> "Material deleted successfully"])
      /\ UNCHANGED <<categories, videos, autoInc>>
      /\ CrudFrame

----------------------------------------------------------------------------
\* Videos CRUD.  req.files is set only for a multipart request.

\* POST /videos: videoUrl and thumbnail as bound to the INSERT
videoUrlOnCreate(body, multipart, files) ==
  LET f == FileOf(files, "video")
  IN  IF multipart /\ f # {} THEN Some(VideoPath(Val(f))) ELSE body.video_url

videoThumbnailOnCreate(multipart, files) ==
  LET f == FileOf(files, "thumbnail")
  IN  IF multipart /\ f # {} THEN Some(ImagePath(Val(f))) ELSE NULL

\* PUT /videos/:id: the video_url and thumbnail columns after the UPDATE
videoUrlOnUpdate(stored, body, multipart, files) ==
  LET f == FileOf(files, "video")
  IN  IF multipart
        THEN IF f # {} THEN VideoPath(Val(f)) ELSE stored
        ELSE IF TruthySeq(body.video_url) THEN Val(body.video_url) ELSE stored

videoThumbnailOnUpdate(stored, multipart, files) ==
  LET f == FileOf(files, "thumbnail")
  IN  IF multipart /\ f # {} THEN Some(ImagePath(Val(f))) ELSE stored

videoColumns(body) ==
  [title |-> Val(body.title), description |-> Val(body.description),
   duration |-> IF TruthyNum(body.duration) THEN Val(body.duration) ELSE 0,
   category_id |-> IF TruthyNum(body.category_id) THEN body.category_id ELSE NULL,
   status |-> enumStored(statusOrDefault(body.status))]

videosWriteFails(body) ==
  \/ body.title = {} \/ body.description = {}
  \/ enumRejects(statusOrDefault(body.status))

videoFkFails(body) ==
  ~categoryFkHolds(IF TruthyNum(body.category_id) THEN body.category_id ELSE NULL)

\* GET /videos (admin list)
getVideos(header) ==
  LET g == authenticateToken(header, now)
  IN  /\ req' = [route |-> "GET /videos", header |-> header, at |-> now, user |-> g.user]
      /\ resp' = IF g.next THEN OkResp(videos) ELSE GateResp(g)
      /\ UNCHANGED <<categories, materials, videos, autoInc>>
      /\ CrudFrame

\* POST /videos
postVideos(header, body, multipart, files) ==
  LET g == authenticateToken(header, now)
      videoUrl == videoUrlOnCreate(body, multipart, files)
      thumbnail == videoThumbnailOnCreate(multipart, files)
  IN  /\ req' = [route |-> "POST /videos", header |-> header, at |-> now, body |-> body,
                 multipart |-> multipart, files |-> files, user |-> g.user]
      /\ IF ~g.next
           THEN /\ resp' = GateResp(g)
                /\ UNCHANGED <<videos, autoInc>>
         ELSE IF ~uploadAccepts(files)
           THEN /\ resp' = ErrorMiddlewareResp
                /\ UNCHANGED <<videos, autoInc>>
         ELSE IF videosWriteFails(body) \/ videoUrl = {} \/ videoFkFails(body)
           THEN /\ resp' = ErrResp(500, "Failed to create video")
                /\ UNCHANGED <<videos, autoInc>>
         ELSE LET c == videoColumns(body)
                  row == [id |-> autoInc.videos, title |-> c.title,
                          description |-> c.description, video_url |-> Val(videoUrl),
                          thumbnail |-> thumbnail, duration |-> c.duration,
                          category_id |-> c.category_id, status |-> c.status,
                          created_at |-> now]
              IN  /\ videos' = videos \cup {row}
                  /\ autoInc' = [autoInc EXCEPT !.videos = @ + 1]
                  /\ resp' = OkResp([id |-> row.id, title |-> body.title,
                                     description |-> body.description,
                                     video_url |-> videoUrl, thumbnail |-> thumbnail,
                                     duration |-> c.duration,
                                     category_id |-> body.category_id,
                                     status |-> statusOrDefault(body.status)])
      /\ UNCHANGED <<categories, materials>>
      /\ CrudFrame

\* PUT /videos/:id
putVideos(header, id, body, multipart, files) ==
  LET g == authenticateToken(header, now)
      matched == {v \in videos : v.id = id}
  IN  /\ req' = [route |-> "PUT /videos/:id", header |-> header, at |-> now, id |-> id,
                 body |-> body, multipart |-> multipart, files |-> files,
                 user |-> g.user]
      /\ IF ~g.next
           THEN /\ resp' = GateResp(g)
                /\ UNCHANGED videos
         ELSE IF ~uploadAccepts(files)
           THEN /\ resp' = ErrorMiddlewareResp
                /\ UNCHANGED videos
         ELSE IF videosWriteFails(body) \/ (matched # {} /\ videoFkFails(body))
           THEN /\ resp' = ErrResp(500, "Failed to update video")
                /\ UNCHANGED videos
         ELSE LET c == videoColumns(body)
              IN  /\ videos' =
                        { IF v.id = id
                            THEN [v EXCEPT !.title = c.title,
                                           !.description = c.description,
                                           !.duration = c.duration,
                                           !.category_id = c.category_id,
                                           !.status = c.status,
                                           !.video_url = videoUrlOnUpdate(v.video_url, body,
                                                                          multipart, files),
                                           !.thumbnail = videoThumbnailOnUpdate(v.thumbnail,
                                                                                multipart, files)]
                            ELSE v : v \in videos }
                  /\ resp' = OkResp([id |-> id, title |-> body.title,
                                     description |-> body.description,
                                     duration |-> body.duration,
                                     category_id |-> body.category_id,
                                     status |-> body.status])
      /\ UNCHANGED <<categories, materials, autoInc>>
      /\ CrudFrame

\* DELETE /videos/:id
deleteVideos(header, id) ==
  LET g == authenticateToken(header, now)
  IN  /\ req' = [route |-> "DELETE /videos/:id", header |-> header, at |-> now, id |-> id,
                 user |-> g.user]
      /\ IF ~g.next
           THEN /\ resp' = GateResp(g)
                /\ UNCHANGED videos
           ELSE /\ videos' = {v \in videos : v.id # id}
                /\ resp' = OkResp([message |-> "Video deleted successfully"])
      /\ UNCHANGED <<categories, materials, autoInc>>
      /\ CrudFrame

----------------------------------------------------------------------------
\* Public read API (src/routes/api.js)

\* defaults of req.query: page = 1, limit = 10; limit = 5 for /latest
DefaultPage == 1

DefaultLimit == 10

LatestDefaultLimit == 5

\* case folding of the collation, on the alphabet of the model
Lower(c) ==
  CASE c = "A" -> "a" [] c = "B" -> "b" [] c = "S" -> "s" [] c = "I" -> "i"
    [] c = "T" -> "t" [] c = "D" -> "d" [] OTHER -> c

\* SQL `str LIKE pat`: % matches any run of characters, _ any one character
RECURSIVE Like(_, _)
Like(str, pat) ==
  IF pat = <<>> THEN str = <<>>
  ELSE IF Head(pat) = "%"
    THEN Like(str, Tail(pat)) \/ (str # <<>> /\ Like(Tail(str), pat))
  ELSE /\ str # <<>>
       /\ (Head(pat) = "_" \/ Lower(Head(pat)) = Lower(Head(str)))
       /\ Like(Tail(str), Tail(pat))

\* `col LIKE ?` on a nullable column: NULL never matches
ColumnLike(col, pat) == col # NULL /\ Like(Val(col), pat)

\* `%${term}%`
Containing(term) == <<"%">> \o term \o <<"%">>

RECURSIVE Arrangements(_)
Arrangements(S) ==
  IF S = {} THEN {<<>>}
  ELSE UNION { {<<x>> \o p : p \in Arrangements(S \ {x})} : x \in S }

\* ORDER BY created_at DESC: every order the store may return; rows created in
\* the same second come in any order
RECURSIVE orderByCreatedAtDesc(_)
orderByCreatedAtDesc(rows) ==
  IF rows = {} THEN {<<>>}
  ELSE LET newest == CHOOSE t \in {r.created_at : r \in rows} :
                       \A r \in rows : r.created_at <= t
           first == {r \in rows : r.created_at = newest}
       IN  UNION { {p \o q : q \in orderByCreatedAtDesc(rows \ first)}
                   : p \in Arrangements(first) }

\* LIMIT ? OFFSET ?
limitOffset(rows, limit, offset) ==
  SubSeq(rows, offset + 1,
         IF offset + limit < Len(rows) THEN offset + limit ELSE Len(rows))

\* LEFT JOIN categories c ON category_id = c.id; SELECT x.*, c.name as category_name
joinCategory(r) ==
  LET c == {k \in categories : Some(k.id) = r.category_id}
  IN  [row |-> r, category_name |-> IF c = {} THEN NULL ELSE Some(Val(c).name)]

joinAll(rows) == [i \in 1..Len(rows) |-> joinCategory(rows[i])]

pageOf(query) == IF query.page = {} THEN DefaultPage ELSE Val(query.page)

limitOf(query) == IF query.limit = {} THEN DefaultLimit ELSE Val(query.limit)

\* const offset = (page - 1) * limit
offsetFromPageZero(query) == pageOf(query) * limitOf(query)

offsetOf(query) == (pageOf(query) - 1) * limitOf(query)

\* Math.ceil(total / limit)
ceilDiv(total, limit) ==
  IF total % limit = 0 THEN total \div limit ELSE (total \div limit) + 1

PublicErr(status, msg) == [status |-> status, body |-> [success |-> FALSE, error |-> msg]]

\* the envelope of a paginated listing
pageEnvelope(data, total, query) ==
  OkResp([success |-> TRUE,
          data |-> data,
          pagination |-> [total |-> total, page |-> pageOf(query),
                          limit |-> limitOf(query),
                          pages |-> ceilDiv(total, limitOf(query))]])

pageResponse(rows, total, query) ==
  pageEnvelope(joinAll(limitOffset(rows, limitOf(query), offsetOf(query))), total, query)

PublicFrame ==
  UNCHANGED <<admins, categories, materials, videos, autoInc, authorColumn,
              now, held, pc, boot, schema, sqlMode>>

\* GET /materials: WHERE of the row query
materialsRowWhereAnyStatus(m, query) ==
  /\ (query.category # {} => m.category_id = query.category)
  /\ (TruthySeq(query.author) => ColumnLike(m.author, Containing(Val(query.author))))

materialsRowWhere(m, query) ==
  /\ m.status = "published"
  /\ (query.category # {} => m.category_id = query.category)
  /\ (TruthySeq(query.author) => ColumnLike(m.author, Containing(Val(query.author))))

\* GET /materials: WHERE of the count query
materialsCountWhereNoAuthor(m, query) ==
  /\ m.status = "published"
  /\ (query.category # {} => m.category_id = query.category)

materialsCountWhere(m, query) ==
  /\ m.status = "published"
  /\ (query.category # {} => m.category_id = query.category)
  /\ (TruthySeq(query.author) => ColumnLike(m.author, Containing(Val(query.author))))

\* GET /materials
listMaterials(query) ==
  /\ req' = [route |-> "GET /api/materials", query |-> query]
  /\ IF TruthySeq(query.author) /\ ~authorColumn
       THEN resp' = PublicErr(500, "Failed to fetch materials")
       ELSE \E rows \in orderByCreatedAtDesc({m \in materials : materialsRowWhere(m, query)}) :
              resp' = pageResponse(rows,
                        Cardinality({m \in materials : materialsCountWhere(m, query)}),
                        query)
  /\ PublicFrame

\* GET /materials/:id
materialByIdWhere(m, id) == m.id = id /\ m.status = "published"

getMaterial(id) ==
  /\ req' = [route |-> "GET /api/materials/:id", id |-> id]
  /\ LET found == {m \in materials : materialByIdWhere(m, id)}
     IN  resp' = IF found = {}
                   THEN PublicErr(404, "Material not found")
                   ELSE OkResp([success |-> TRUE, data |-> joinCategory(Val(found))])
  /\ PublicFrame

\* GET /materials/category/:categoryId
materialsByCategoryRowWhere(m, categoryId) ==
  m.category_id = Some(categoryId) /\ m.status = "published"

materialsByCategoryCountWhere(m, categoryId) ==
  m.category_id = Some(categoryId) /\ m.status = "published"

listMaterialsByCategory(categoryId, query) ==
  /\ req' = [route |-> "GET /api/materials/category/:categoryId",
             categoryId |-> categoryId, query |-> query]
  /\ \E rows \in orderByCreatedAtDesc(
                   {m \in materials : materialsByCategoryRowWhere(m, categoryId)}) :
       resp' = pageResponse(rows,
                 Cardinality({m \in materials : materialsByCategoryCountWhere(m, categoryId)}),
                 query)
  /\ PublicFrame

\* GET /materials/author/:author
materialsByAuthorRowWhere(m, author) ==
  ColumnLike(m.author, Containing(author)) /\ m.status = "published"

materialsByAuthorCountWhere(m, author) ==
  ColumnLike(m.author, Containing(author)) /\ m.status = "published"

listMaterialsByAuthor(author, query) ==
  /\ req' = [route |-> "GET /api/materials/author/:author", author |-> author,
             query |-> query]
  /\ IF ~authorColumn
       THEN resp' = PublicErr(500, "Failed to fetch materials by author")
       ELSE \E rows \in orderByCreatedAtDesc(
                          {m \in materials : materialsByAuthorRowWhere(m, author)}) :
              resp' = pageResponse(rows,
                        Cardinality({m \in materials : materialsByAuthorCountWhere(m, author)}),
                        query)
  /\ PublicFrame

\* GET /videos: WHERE of the row query and of the count query
videosRowWhere(v, query) ==
  /\ v.status = "published"
  /\ (query.category # {} => v.category_id = query.category)

videosCountWhere(v, query) ==
  /\ v.status = "published"
  /\ (query.category # {} => v.category_id = query.category)

\* GET /videos
listVideos(query) ==
  /\ req' = [route |-> "GET /api/videos", query |-> query]
  /\ \E rows \in orderByCreatedAtDesc({v \in videos : videosRowWhere(v, query)}) :
       resp' = pageResponse(rows,
                 Cardinality({v \in videos : videosCountWhere(v, query)}), query)
  /\ PublicFrame

\* GET /videos/:id
videoByIdWhere(v, id) == v.id = id /\ v.status = "published"

getVideo(id) ==
  /\ req' = [route |-> "GET /api/videos/:id", id |-> id]
  /\ LET found == {v \in videos : videoByIdWhere(v, id)}
     IN  resp' = IF found = {}
                   THEN PublicErr(404, "Video not found")
                   ELSE OkResp([success |-> TRUE, data |-> joinCategory(Val(found))])
  /\ PublicFrame

\* GET /videos/category/:categoryId
videosByCategoryRowWhere(v, categoryId) ==
  v.category_id = Some(categoryId) /\ v.status = "published"

videosByCategoryCountWhere(v, categoryId) ==
  v.category_id = Some(categoryId) /\ v.status = "published"

listVideosByCategory(categoryId, query) ==
  /\ req' = [route |-> "GET /api/videos/category/:categoryId",
             categoryId |-> categoryId, query |-> query]
  /\ \E rows \in orderByCreatedAtDesc(
                   {v \in videos : videosByCategoryRowWhere(v, categoryId)}) :
       resp' = pageResponse(rows,
                 Cardinality({v \in videos : videosByCategoryCountWhere(v, categoryId)}),
                 query)
  /\ PublicFrame

\* GET /materials and GET /videos as the two statements they execute: the
\* handler awaits the row query, then awaits the count query and responds;
\* between the two awaits other requests are served.

ListFrame ==
  UNCHANGED <<admins, categories, materials, videos, autoInc, authorColumn,
              now, held, boot, schema, sqlMode>>

Idle == [step |-> "idle"]

\* const [totalResult] = await pool.execute(countQuery, countParams), counting
\* rows of any status
countMaterialsAnyStatus(query) == Cardinality(materials)

\* const [totalResult] = await pool.execute(countQuery, countParams)
countMaterials(query) == Cardinality({m \in materials : materialsCountWhere(m, query)})

countVideos(query) == Cardinality({v \in videos : videosCountWhere(v, query)})

\* const [materials] = await pool.execute(query, params)
listMaterialsRowQuery(query) ==
  /\ IF TruthySeq(query.author) /\ ~authorColumn
       THEN /\ req' = [route |-> "GET /api/materials", query |-> query]
            /\ resp' = PublicErr(500, "Failed to fetch materials")
            /\ UNCHANGED pc
       ELSE /\ \E rows \in orderByCreatedAtDesc({m \in materials : materialsRowWhere(m, query)}) :
                 pc' = [step |-> "count", route |-> "GET /api/materials", query |-> query,
                        rows |-> joinAll(limitOffset(rows, limitOf(query), offsetOf(query)))]
            /\ UNCHANGED <<req, resp>>
  /\ ListFrame

\* the count query of GET /materials and res.json
listMaterialsCountQuery ==
  /\ req' = [route |-> pc.route, query |-> pc.query]
  /\ resp' = pageEnvelope(pc.rows, countMaterials(pc.query), pc.query)
  /\ pc' = Idle
  /\ ListFrame

\* const [videos] = await pool.execute(query, params)
listVideosRowQuery(query) ==
  /\ \E rows \in orderByCreatedAtDesc({v \in videos : videosRowWhere(v, query)}) :
       pc' = [step |-> "count", route |-> "GET /api/videos", query |-> query,
              rows |-> joinAll(limitOffset(rows, limitOf(query), offsetOf(query)))]
  /\ UNCHANGED <<req, resp>>
  /\ ListFrame

\* the count query of GET /videos and res.json
listVideosCountQuery ==
  /\ req' = [route |-> pc.route, query |-> pc.query]
  /\ resp' = pageEnvelope(pc.rows, countVideos(pc.query), pc.query)
  /\ pc' = Idle
  /\ ListFrame

\* GET /search: WHERE of the materials query and of the videos query
searchMaterialsWhere(m, query) ==
  /\ m.status = "published"
  /\ \/ Like(m.title, Containing(Val(query.q)))
     \/ Like(m.content, Containing(Val(query.q)))
     \/ ColumnLike(m.author, Containing(Val(query.q)))
  /\ (query.category # {} => m.category_id = query.category)

searchVideosWhere(v, query) ==
  /\ v.status = "published"
  /\ \/ Like(v.title, Containing(Val(query.q)))
     \/ Like(v.description, Containing(Val(query.q)))
  /\ (query.category # {} => v.category_id = query.category)

\* GET /search
search(query) ==
  LET inMaterials == query.type = {} \/ query.type = {"materials"}
      inVideos == query.type = {} \/ query.type = {"videos"}
  IN  /\ req' = [route |-> "GET /api/search", query |-> query]
      /\ IF ~TruthySeq(query.q)
           THEN resp' = PublicErr(400, "Search query is required")
         ELSE IF inMaterials /\ ~authorColumn
           THEN resp' = PublicErr(500, "Search failed")
         ELSE \E ms \in orderByCreatedAtDesc(
                          IF inMaterials
                            THEN {m \in materials : searchMaterialsWhere(m, query)}
                            ELSE {}),
                 vs \in orderByCreatedAtDesc(
                          IF inVideos
                            THEN {v \in videos : searchVideosWhere(v, query)}
                            ELSE {}) :
                resp' = OkResp(
                  [success |-> TRUE,
                   data |-> [materials |-> joinAll(limitOffset(ms, limitOf(query),
                                                               offsetOf(query))),
                             videos |-> joinAll(limitOffset(vs, limitOf(query),
                                                            offsetOf(query)))],
                   query |-> Val(query.q),
                   pagination |-> [page |-> pageOf(query), limit |-> limitOf(query)]])
      /\ PublicFrame

\* GET /latest
latest(query) ==
  LET limit == IF query.limit = {} THEN LatestDefaultLimit ELSE Val(query.limit)
  IN  /\ req' = [route |-> "GET /api/latest", query |-> query]
      /\ \E ms \in orderByCreatedAtDesc({m \in materials : m.status = "published"}),
            vs \in orderByCreatedAtDesc({v \in videos : v.status = "published"}) :
           resp' = OkResp([success |-> TRUE,
                           data |-> [materials |-> joinAll(limitOffset(ms, limit, 0)),
                                     videos |-> joinAll(limitOffset(vs, limit, 0))]])
      /\ PublicFrame

----------------------------------------------------------------------------
\* Boot: startServer (server.js) awaiting initDatabase (config/database.js)

\* the tables in the order initDatabase creates them
SchemaTables == <<"admins", "categories", "materials", "videos">>

SchemaObjects == {"database"} \cup {SchemaTables[i] : i \in 1..Len(SchemaTables)}

\* a process that went through startServer and serves requests
Booted == [step |-> "listening", exitCode |-> NULL, listening |-> TRUE, error |-> NULL]

\* catch (error) { console.error(...); return } : a catch that does not exit
initDatabaseCatchAndReturn(error) ==
  [step |-> "listen", exitCode |-> NULL, listening |-> FALSE, error |-> Some(error)]

\* catch (error) { console.error(...); process.exit(1) }
initDatabaseCatch(error) ==
  [step |-> "exited", exitCode |-> Some(1), listening |-> FALSE, error |-> Some(error)]

BootFrame ==
  UNCHANGED <<admins, categories, materials, videos, autoInc, now, held, req, resp, pc,
              sqlMode>>

\* await mysql.createConnection({host, user, password})
createConnection(ok) ==
  /\ boot.step = "createConnection"
  /\ boot' = IF ok THEN [boot EXCEPT !.step = "createDatabase"]
             ELSE initDatabaseCatch("ECONNREFUSED")
  /\ UNCHANGED <<schema, authorColumn>>
  /\ BootFrame

\* await connection.execute(`CREATE DATABASE IF NOT EXISTS ...`)
createDatabase(ok) ==
  /\ boot.step = "createDatabase"
  /\ IF ok THEN /\ boot' = [boot EXCEPT !.step = "end"]
                /\ schema' = schema \cup {"database"}
     ELSE /\ boot' = initDatabaseCatch("ER_DBACCESS_DENIED_ERROR")
          /\ UNCHANGED schema
  /\ UNCHANGED authorColumn
  /\ BootFrame

\* await connection.end()
connectionEnd(ok) ==
  /\ boot.step = "end"
  /\ boot' = IF ok THEN [boot EXCEPT !.step = "getConnection"]
             ELSE initDatabaseCatch("PROTOCOL_CONNECTION_LOST")
  /\ UNCHANGED <<schema, authorColumn>>
  /\ BootFrame

\* const db = await pool.getConnection()
getConnection(ok) ==
  /\ boot.step = "getConnection"
  /\ boot' = IF ok THEN [boot EXCEPT !.step = SchemaTables[1]]
             ELSE initDatabaseCatch("ECONNREFUSED")
  /\ UNCHANGED <<schema, authorColumn>>
  /\ BootFrame

\* the step after CREATE TABLE of the i-th table
afterTable(i) == IF i < Len(SchemaTables) THEN SchemaTables[i + 1] ELSE "release"

\* await db.execute(`CREATE TABLE IF NOT EXISTS ...`): a table that is created
\* here gets the columns the statement lists, which for materials do not
\* include author; a table that exists is left as it is
createTable(ok) ==
  /\ \E i \in 1..Len(SchemaTables) :
       /\ boot.step = SchemaTables[i]
       /\ IF ok
            THEN /\ boot' = [boot EXCEPT !.step = afterTable(i)]
                 /\ schema' = schema \cup {SchemaTables[i]}
                 /\ authorColumn' =
                      IF SchemaTables[i] = "materials" /\ "materials" \notin schema
                        THEN FALSE ELSE authorColumn
            ELSE /\ boot' = initDatabaseCatch("ER_CANT_CREATE_TABLE")
                 /\ UNCHANGED <<schema, authorColumn>>
  /\ BootFrame

\* db.release(); initDatabase returns into startServer
release ==
  /\ boot.step = "release"
  /\ boot' = [boot EXCEPT !.step = "listen"]
  /\ UNCHANGED <<schema, authorColumn>>
  /\ BootFrame

\* app.listen(PORT, ...): a port that cannot be bound raises an unhandled
\* 'error' event, which ends the process with code 1
listen(ok) ==
  /\ boot.step = "listen"
  /\ boot' = IF ok THEN [boot EXCEPT !.step = "listening", !.listening = TRUE]
             ELSE [boot EXCEPT !.step = "exited", !.exitCode = Some(1)]
  /\ UNCHANGED <<schema, authorColumn>>
  /\ BootFrame

----------------------------------------------------------------------------
\* Inputs

\* rows the admin specifications may insert into categories, materials and
\* videos together
MaxInserts == 2

Ids == 1..MaxInserts

\* the clock of the specifications in which time stands still
StartClock == 30

AdminClaims == [id |-> 1, email |-> ADMIN_EMAIL]

\* a token issued an hour ago, one issued exactly expiresIn hours ago, one
\* signed with another secret, and one whose expiry was edited after signing
FreshToken == jwtSign(AdminClaims, JWT_SECRET, expiresIn, StartClock - 1)

StaleToken == jwtSign(AdminClaims, JWT_SECRET, expiresIn, StartClock - expiresIn)

ForgedToken == jwtSign(AdminClaims, "guessed-secret", expiresIn, StartClock - 1)

TamperedToken == [StaleToken EXCEPT !.claims.exp = @ + expiresIn]

\* headers that carry no valid token
BadHeaders ==
  { NoHeader, <<SchemeWord>>, <<SchemeWord, EmptyWord, FreshToken>>,
    Bearer(GarbageToken), Bearer(ForgedToken), Bearer(TamperedToken),
    Bearer(StaleToken) }

\* the headers of the CRUD specification
GateHeaders == {NoHeader, Bearer(ForgedToken), Bearer(FreshToken)}

NoFiles == {}

CategoryBody == [name |-> Some(<<"D", "x">>), description |-> Some(<<"a">>)]

MaterialBody ==
  [title |-> Some(<<"S", "e">>), content |-> Some(<<"t">>), author |-> NULL,
   category_id |-> NULL, status |-> NULL]

VideoBody ==
  [title |-> Some(<<"I", "n">>), description |-> Some(<<"c">>),
   video_url |-> Some(<<"https://v/", "1">>), duration |-> NULL,
   category_id |-> NULL, status |-> NULL]

DefaultCredentials == [email |-> Some(ADMIN_EMAIL), password |-> Some(ADMIN_PASSWORD)]

ResetBody == [email |-> Some(ADMIN_EMAIL), newPassword |-> Some("changed")]

\* rows inserted so far
Inserted ==
  (autoInc.categories - 1) + (autoInc.materials - 1) + (autoInc.videos - 1)

NoRequest == [route |-> "none"]

NoResponse == [status |-> 0, body |-> [error |-> ""]]

InitStore ==
  /\ admins = {}
  /\ categories = {}
  /\ materials = {}
  /\ videos = {}
  /\ autoInc = [admins |-> 1, categories |-> 1, materials |-> 1, videos |-> 1]
  /\ held = NULL
  /\ req = NoRequest
  /\ resp = NoResponse
  /\ pc = <<>>
  /\ boot = Booted
  /\ schema = SchemaObjects
  /\ sqlMode = StrictMode

----------------------------------------------------------------------------
\* Spec: the routes of the admin router that write to the store, each called
\* with and without a valid token.

Init ==
  /\ InitStore
  /\ authorColumn \in BOOLEAN
  /\ now = StartClock

InitAdmin == postInit("salt1")

ResetPassword == postResetPassword(ResetBody, "salt1")

CreateCategory ==
  /\ Inserted < MaxInserts
  /\ \E h \in GateHeaders : postCategories(h, CategoryBody)

UpdateCategory ==
  \E h \in GateHeaders, id \in Ids :
    putCategories(h, id, [CategoryBody EXCEPT !.name = Some(<<"T", "x">>)])

DeleteCategory == \E h \in GateHeaders, id \in Ids : deleteCategories(h, id)

CreateMaterial ==
  /\ Inserted < MaxInserts
  /\ \E h \in GateHeaders : postMaterials(h, MaterialBody, NoFiles)

UpdateMaterial ==
  \E h \in GateHeaders, id \in Ids :
    putMaterials(h, id, [MaterialBody EXCEPT !.status = Some("draft")], NoFiles)

DeleteMaterial == \E h \in GateHeaders, id \in Ids : deleteMaterials(h, id)

CreateVideo ==
  /\ Inserted < MaxInserts
  /\ \E h \in GateHeaders : postVideos(h, VideoBody, FALSE, NoFiles)

UpdateVideo ==
  \E h \in GateHeaders, id \in Ids :
    putVideos(h, id, [VideoBody EXCEPT !.status = Some("draft")], FALSE, NoFiles)

DeleteVideo == \E h \in GateHeaders, id \in Ids : deleteVideos(h, id)

Next ==
  \/ InitAdmin \/ ResetPassword
  \/ CreateCategory \/ UpdateCategory \/ DeleteCategory
  \/ CreateMaterial \/ UpdateMaterial \/ DeleteMaterial
  \/ CreateVideo \/ UpdateVideo \/ DeleteVideo

Spec == Init /\ [][Next]_vars

----------------------------------------------------------------------------
\* SpecAuth: the auth gate over time.  An admin is initialized, logs in, may
\* have its password reset; a client presents the token it holds, or a variant
\* of it, to a gated route while the clock advances.

\* hours the clock advances in one step, and the hour at which it stops
TickHours == 12

MaxClock == 36

Emails == {ADMIN_EMAIL, "nobody@example.com"}

Passwords == {ADMIN_PASSWORD, "changed", "guess"}

LoginBodies ==
  [email : {NULL} \cup {Some(e) : e \in Emails},
   password : {NULL} \cup {Some(p) : p \in Passwords}]

ResetBodies ==
  [email : {Some(e) : e \in Emails}, newPassword : {NULL, Some("changed")}]

\* what a client can put in the Authorization header
ClientHeaders ==
  {NoHeader, <<SchemeWord>>, Bearer(GarbageToken)} \cup
  UNION { { Bearer(t), <<SchemeWord, EmptyWord, t>>,
            Bearer([t EXCEPT !.sig = jwtMac("guessed-secret", t.claims)]),
            Bearer([t EXCEPT !.claims.exp = @ + expiresIn]),
            Bearer([t EXCEPT !.claims.id = @ + 1]) } : t \in held }

InitAuth ==
  /\ InitStore
  /\ authorColumn = TRUE
  /\ now = 0

AuthCheck == getCheck

AuthInit == \E salt \in Salts : postInit(salt)

AuthLogin == \E body \in LoginBodies : postLogin(body)

AuthResetPassword == \E body \in ResetBodies, salt \in Salts : postResetPassword(body, salt)

AuthStats == \E h \in ClientHeaders : getStats(h)

Tick ==
  /\ now + TickHours <= MaxClock
  /\ now' = now + TickHours
  /\ UNCHANGED <<admins, categories, materials, videos, autoInc, authorColumn,
                 held, req, resp, pc, boot, schema, sqlMode>>

NextAuth ==
  \/ AuthCheck \/ AuthInit \/ AuthLogin \/ AuthResetPassword \/ AuthStats \/ Tick

SpecAuth == InitAuth /\ [][NextAuth]_vars

----------------------------------------------------------------------------
\* SpecInit: POST /init handlers in flight together.  A handler suspends at
\* each await: after its SELECT it has read the table, and its INSERT runs
\* later, on the table as it is then.

\* POST /init requests in flight
NumInitCalls == 3

InitCalls == 1..NumInitCalls

\* an admin seeded before the first init call
SeededAdmins ==
  { [id |-> 1, email |-> e, password |-> bcryptHash("seeded", bcryptCost, "salt1"),
     name |-> "Owner"] : e \in Emails }

InitInit ==
  /\ \/ admins = {}
     \/ \E a \in SeededAdmins : admins = {a}
  /\ categories = {}
  /\ materials = {}
  /\ videos = {}
  /\ autoInc = [admins |-> 1 + Cardinality(admins), categories |-> 1,
                materials |-> 1, videos |-> 1]
  /\ authorColumn = TRUE
  /\ now = 0
  /\ held = NULL
  /\ req = NoRequest
  /\ resp = NoResponse
  /\ pc = [p \in InitCalls |-> "start"]
  /\ boot = Booted
  /\ schema = SchemaObjects
  /\ sqlMode = StrictMode

\* router.post('/init') up to the await of bcrypt.hash
initStart(p) ==
  /\ pc[p] = "start"
  /\ req' = [route |-> "POST /init", call |-> p]
  /\ IF initSelect > 0
       THEN /\ initRespond(initSelect, "salt1")
            /\ pc' = [pc EXCEPT ![p] = "done"]
       ELSE /\ pc' = [pc EXCEPT ![p] = "hashing"]
            /\ UNCHANGED <<admins, autoInc, resp>>
  /\ UNCHANGED <<categories, materials, videos, authorColumn, now, held, boot, schema, sqlMode>>

\* router.post('/init') from the INSERT on
initFinish(p, salt) ==
  /\ pc[p] = "hashing"
  /\ req' = [route |-> "POST /init", call |-> p]
  /\ initRespond(0, salt)
  /\ pc' = [pc EXCEPT ![p] = "done"]
  /\ UNCHANGED <<categories, materials, videos, authorColumn, now, held, boot, schema, sqlMode>>

InitSelectStep == \E p \in InitCalls : initStart(p)

InitInsertStep == \E p \in InitCalls, salt \in Salts : initFinish(p, salt)

NextInit == InitSelectStep \/ InitInsertStep

SpecInit == InitInit /\ [][NextInit]_vars

----------------------------------------------------------------------------
\* SpecUpload: an authenticated admin creates and updates materials and videos
\* with and without uploaded files.

\* rows SpecUpload may insert into materials and videos together
MaxUploadRows == 1

UploadIds == 1..MaxUploadRows

Png(field, suffix) ==
  [fieldname |-> field, mimetype |-> [type |-> "image", subtype |-> "png"],
   uniqueSuffix |-> suffix, ext |-> ".png"]

Mp4(field, suffix) ==
  [fieldname |-> field, mimetype |-> [type |-> "video", subtype |-> "mp4"],
   uniqueSuffix |-> suffix, ext |-> ".mp4"]

\* uploads of a materials request: none, an image, another image, a video
\* sent in the image field
MaterialUploads ==
  { {}, {Png("image", "1700-1")}, {Png("image", "1800-2")}, {Mp4("image", "1900-3")} }

\* (multipart, files) of a videos request
VideoUploads ==
  { <<FALSE, {}>>, <<TRUE, {}>>,
    <<TRUE, {Png("thumbnail", "1700-1")}>>,
    <<TRUE, {Png("thumbnail", "1800-2")}>>,
    <<TRUE, {Mp4("video", "1700-1")}>>,
    <<TRUE, {Mp4("video", "1800-2"), Png("thumbnail", "1800-2")}>>,
    <<TRUE, {Mp4("thumbnail", "1900-3")}>> }

UploadMaterialBodies ==
  [title : {NULL, Some(<<"S", "e">>)}, content : {Some(<<"t">>)}, author : {NULL},
   category_id : {NULL}, status : {NULL, Some("draft")}]

UploadVideoBodies ==
  [title : {Some(<<"I", "n">>)}, description : {Some(<<"c">>)},
   video_url : {NULL, Some(<<"https://v/", "1">>)}, duration : {NULL},
   category_id : {NULL}, status : {NULL, Some("draft")}]

UploadsInserted == (autoInc.materials - 1) + (autoInc.videos - 1)

InitUpload ==
  /\ InitStore
  /\ authorColumn \in BOOLEAN
  /\ now = StartClock

UploadCreateMaterial ==
  /\ UploadsInserted < MaxUploadRows
  /\ \E body \in UploadMaterialBodies, files \in MaterialUploads :
       postMaterials(Bearer(FreshToken), body, files)

UploadUpdateMaterial ==
  \E id \in UploadIds, body \in UploadMaterialBodies, files \in MaterialUploads :
    putMaterials(Bearer(FreshToken), id, body, files)

UploadCreateVideo ==
  /\ UploadsInserted < MaxUploadRows
  /\ \E body \in UploadVideoBodies, up \in VideoUploads :
       postVideos(Bearer(FreshToken), body, up[1], up[2])

UploadUpdateVideo ==
  \E id \in UploadIds, body \in UploadVideoBodies, up \in VideoUploads :
    putVideos(Bearer(FreshToken), id, body, up[1], up[2])

NextUpload ==
  \/ UploadCreateMaterial \/ UploadUpdateMaterial
  \/ UploadCreateVideo \/ UploadUpdateVideo

SpecUpload == InitUpload /\ [][NextUpload]_vars

----------------------------------------------------------------------------
\* SpecCascade: categories are deleted from a store holding two categories and
\* materials and videos that reference them or no category.

\* materials and videos in the store together
MaxCascadeRows == 2

CascadeCategories ==
  { [id |-> 1, name |-> <<"D", "x">>, description |-> Some(<<"a">>)],
    [id |-> 2, name |-> <<"T", "x">>, description |-> NULL] }

CascadeCategoryIds == {NULL} \cup {Some(c.id) : c \in CascadeCategories}

CascadeMaterial(id, category_id, status) ==
  [id |-> id, title |-> <<"S", "e">>, content |-> <<"t">>, author |-> Some(<<"A", "b">>),
   category_id |-> category_id, image |-> Some(ImagePath(Png("image", "1700-1"))),
   status |-> status, created_at |-> id]

CascadeVideo(id, category_id) ==
  [id |-> id, title |-> <<"I", "n">>, description |-> <<"c">>,
   video_url |-> <<"https://v/", "1">>, thumbnail |-> NULL, duration |-> 0,
   category_id |-> category_id, status |-> "published", created_at |-> id]

InitCascade ==
  /\ admins = {}
  /\ categories = CascadeCategories
  /\ \E nm \in 0..MaxCascadeRows : \E nv \in 0..(MaxCascadeRows - nm) :
       /\ \E cat \in [1..nm -> CascadeCategoryIds], st \in [1..nm -> StatusEnum] :
            materials = {CascadeMaterial(i, cat[i], st[i]) : i \in 1..nm}
       /\ \E cat \in [1..nv -> CascadeCategoryIds] :
            videos = {CascadeVideo(i, cat[i]) : i \in 1..nv}
       /\ autoInc = [admins |-> 1, categories |-> 3, materials |-> nm + 1,
                     videos |-> nv + 1]
  /\ authorColumn = TRUE
  /\ now = StartClock
  /\ held = NULL
  /\ req = NoRequest
  /\ resp = NoResponse
  /\ pc = <<>>
  /\ boot = Booted
  /\ schema = SchemaObjects
  /\ sqlMode = StrictMode

CascadeDelete ==
  \E h \in GateHeaders, id \in 1..3 : deleteCategories(h, id)

CascadeMove ==
  \E id \in 1..MaxCascadeRows, c \in CascadeCategoryIds :
    putMaterials(Bearer(FreshToken), id,
                 [MaterialBody EXCEPT !.category_id = c], NoFiles)

NextCascade == CascadeDelete \/ CascadeMove

SpecCascade == InitCascade /\ [][NextCascade]_vars

----------------------------------------------------------------------------
\* SpecRead: one public request on a store drawn from the small stores (every
\* combination of status, category, author and creation second on up to
\* MaxReadRows rows) or on the store of the pagination example.

\* materials and videos in a small store together
MaxReadRows == 2

\* published materials in the store of the pagination example
ExampleRows == 12

ReadCategories == {[id |-> 1, name |-> <<"D", "x">>, description |-> NULL]}

ReadMaterial(id, shape) ==
  [id |-> id, title |-> <<"S", "e">>, content |-> <<"t">>, author |-> shape.author,
   category_id |-> shape.category_id, image |-> NULL, status |-> shape.status,
   created_at |-> shape.created_at]

ReadVideo(id, shape) ==
  [id |-> id, title |-> <<"I", "n">>, description |-> <<"c">>,
   video_url |-> <<"https://v/", "1">>, thumbnail |-> NULL, duration |-> 0,
   category_id |-> shape.category_id, status |-> shape.status,
   created_at |-> shape.created_at]

MaterialShapes(authors) ==
  [status : StatusEnum, category_id : {NULL, Some(1)}, author : authors,
   created_at : {1, 2}]

VideoShapes == [status : StatusEnum, category_id : {NULL, Some(1)}, created_at : {1, 2}]

ExampleShape(i) ==
  [status |-> IF i > ExampleRows THEN "draft" ELSE "published",
   category_id |-> NULL, author |-> Some(<<"A", "b">>), created_at |-> i]

InitRead ==
  /\ admins = {}
  /\ categories = ReadCategories
  /\ authorColumn \in BOOLEAN
  /\ \/ \E nm \in 0..MaxReadRows : \E nv \in 0..(MaxReadRows - nm) :
          /\ \E f \in [1..nm -> MaterialShapes(IF authorColumn
                                                 THEN {NULL, Some(<<"A", "b">>)}
                                                 ELSE {NULL})] :
               materials = {ReadMaterial(i, f[i]) : i \in 1..nm}
          /\ \E f \in [1..nv -> VideoShapes] :
               videos = {ReadVideo(i, f[i]) : i \in 1..nv}
     \/ /\ authorColumn
        /\ materials = {ReadMaterial(i, ExampleShape(i)) : i \in 1..(ExampleRows + 1)}
        /\ videos = {}
  /\ autoInc = [admins |-> 1, categories |-> 2,
                materials |-> Cardinality(materials) + 1,
                videos |-> Cardinality(videos) + 1]
  /\ now = StartClock
  /\ held = NULL
  /\ req = NoRequest
  /\ resp = NoResponse
  /\ pc = <<>>
  /\ boot = Booted
  /\ schema = SchemaObjects
  /\ sqlMode = StrictMode

Pagings == [page : {NULL, Some(2)}, limit : {NULL, Some(1), Some(2), Some(5)}]

CategoryFilters == {NULL, Some(1), Some(2)}

AuthorFilters == {NULL, Some(<<"a">>), Some(<<"b", "a">>), Some(<<"_", "B">>)}

SearchTerms == {NULL, Some(<<>>), Some(<<"s">>), Some(<<"b">>), Some(<<"z">>)}

ReadIds == 1..(MaxReadRows + 1)

ReadMaterials ==
  /\ req = NoRequest
  /\ \E pg \in Pagings, c \in CategoryFilters, a \in AuthorFilters :
       listMaterials([page |-> pg.page, limit |-> pg.limit, category |-> c, author |-> a])

ReadMaterial1 == req = NoRequest /\ \E id \in ReadIds : getMaterial(id)

ReadMaterialsByCategory ==
  /\ req = NoRequest
  /\ \E pg \in Pagings, c \in {1, 2} : listMaterialsByCategory(c, pg)

ReadMaterialsByAuthor ==
  /\ req = NoRequest
  /\ \E pg \in Pagings, a \in AuthorFilters \ {NULL} : listMaterialsByAuthor(Val(a), pg)

ReadVideos ==
  /\ req = NoRequest
  /\ \E pg \in Pagings, c \in CategoryFilters :
       listVideos([page |-> pg.page, limit |-> pg.limit, category |-> c])

ReadVideo1 == req = NoRequest /\ \E id \in ReadIds : getVideo(id)

ReadVideosByCategory ==
  /\ req = NoRequest
  /\ \E pg \in Pagings, c \in {1, 2} : listVideosByCategory(c, pg)

ReadSearch ==
  /\ req = NoRequest
  /\ \E q \in SearchTerms, t \in {NULL, Some("materials"), Some("videos")},
        c \in {NULL, Some(1)}, l \in {NULL, Some(1)} :
       search([q |-> q, type |-> t, category |-> c, page |-> NULL, limit |-> l])

ReadLatest ==
  /\ req = NoRequest
  /\ \E l \in {NULL, Some(1)} : latest([limit |-> l])

NextRead ==
  \/ ReadMaterials \/ ReadMaterial1 \/ ReadMaterialsByCategory \/ ReadMaterialsByAuthor
  \/ ReadVideos \/ ReadVideo1 \/ ReadVideosByCategory \/ ReadSearch \/ ReadLatest

SpecRead == InitRead /\ [][NextRead]_vars

----------------------------------------------------------------------------
\* SpecBoot: one run of startServer against a store that holds none, some or
\* all of the database objects, every awaited call succeeding or failing.

InitBoot ==
  /\ admins = {}
  /\ categories = {}
  /\ materials = {}
  /\ videos = {}
  /\ autoInc = [admins |-> 1, categories |-> 1, materials |-> 1, videos |-> 1]
  /\ \/ schema = {}
     \/ \E T \in SUBSET (SchemaObjects \ {"database"}) : schema = {"database"} \cup T
  /\ IF "materials" \in schema THEN authorColumn \in BOOLEAN ELSE authorColumn = FALSE
  /\ now = StartClock
  /\ held = NULL
  /\ req = NoRequest
  /\ resp = NoResponse
  /\ pc = <<>>
  /\ boot = [step |-> "createConnection", exitCode |-> NULL, listening |-> FALSE,
             error |-> NULL]
  /\ sqlMode = StrictMode

BootConnect == \E ok \in BOOLEAN : createConnection(ok)

BootCreateDatabase == \E ok \in BOOLEAN : createDatabase(ok)

BootConnectionEnd == \E ok \in BOOLEAN : connectionEnd(ok)

BootGetConnection == \E ok \in BOOLEAN : getConnection(ok)

BootCreateTable == \E ok \in BOOLEAN : createTable(ok)

BootRelease == release

BootListen == \E ok \in BOOLEAN : listen(ok)

NextBoot ==
  \/ BootConnect \/ BootCreateDatabase \/ BootConnectionEnd \/ BootGetConnection
  \/ BootCreateTable \/ BootRelease \/ BootListen

SpecBoot == InitBoot /\ [][NextBoot]_vars

----------------------------------------------------------------------------
\* SpecMime: material and video writes that upload files whose MIME type
\* matches or does not match the field, with and without a valid token.

MaxMimeRows == 1

MimeIds == 1..MaxMimeRows

MimeHeaders == {NoHeader, Bearer(StaleToken), Bearer(FreshToken)}

\* uploads of a materials request: none, an image, a video in the image field
MimeMaterialUploads == { {}, {Png("image", "1700-1")}, {Mp4("image", "1900-3")} }

\* (multipart, files) of a videos request: a video and a thumbnail, an image
\* in the video field, a video in the thumbnail field next to a proper video
MimeVideoUploads ==
  { <<TRUE, {Mp4("video", "1700-1"), Png("thumbnail", "1700-1")}>>,
    <<TRUE, {Png("video", "1900-3")}>>,
    <<TRUE, {Mp4("video", "1800-2"), Mp4("thumbnail", "1900-3")}>> }

MimeMaterialBody ==
  [title |-> Some(<<"S", "e">>), content |-> Some(<<"t">>), author |-> NULL,
   category_id |-> NULL, status |-> NULL]

MimeVideoBody ==
  [title |-> Some(<<"I", "n">>), description |-> Some(<<"c">>),
   video_url |-> NULL, duration |-> NULL, category_id |-> NULL, status |-> NULL]

MimeInserted == (autoInc.materials - 1) + (autoInc.videos - 1)

InitMime ==
  /\ InitStore
  /\ authorColumn \in BOOLEAN
  /\ now = StartClock

MimeCreateMaterial ==
  /\ MimeInserted < MaxMimeRows
  /\ \E h \in MimeHeaders, files \in MimeMaterialUploads :
       postMaterials(h, MimeMaterialBody, files)

MimeUpdateMaterial ==
  \E h \in MimeHeaders, id \in MimeIds, files \in MimeMaterialUploads :
    putMaterials(h, id, MimeMaterialBody, files)

MimeCreateVideo ==
  /\ MimeInserted < MaxMimeRows
  /\ \E h \in MimeHeaders, up \in MimeVideoUploads :
       postVideos(h, MimeVideoBody, up[1], up[2])

MimeUpdateVideo ==
  \E h \in MimeHeaders, id \in MimeIds, up \in MimeVideoUploads :
    putVideos(h, id, MimeVideoBody, up[1], up[2])

NextMime ==
  \/ MimeCreateMaterial \/ MimeUpdateMaterial \/ MimeCreateVideo \/ MimeUpdateVideo

SpecMime == InitMime /\ [][NextMime]_vars

----------------------------------------------------------------------------
\* SpecRace: one paginated list request at a time, served while an admin
\* creates, updates and deletes materials and videos.

MaxRaceRows == 2

RaceIds == 1..MaxRaceRows

RaceInserted == (autoInc.materials - 1) + (autoInc.videos - 1)

RaceStatuses == {NULL, Some("draft")}

RaceQueries ==
  [page : {NULL}, limit : {NULL, Some(1)}, category : {NULL}, author : {NULL}]

InitRace ==
  /\ admins = {}
  /\ categories = {}
  /\ materials = {}
  /\ videos = {}
  /\ autoInc = [admins |-> 1, categories |-> 1, materials |-> 1, videos |-> 1]
  /\ authorColumn = TRUE
  /\ now = StartClock
  /\ held = NULL
  /\ req = NoRequest
  /\ resp = NoResponse
  /\ pc = Idle
  /\ boot = Booted
  /\ schema = SchemaObjects
  /\ sqlMode = StrictMode

RaceListMaterialsRows ==
  /\ pc.step = "idle"
  /\ \E q \in RaceQueries : listMaterialsRowQuery(q)

RaceListMaterialsCount ==
  /\ pc.step = "count" /\ pc.route = "GET /api/materials"
  /\ listMaterialsCountQuery

RaceListVideosRows ==
  /\ pc.step = "idle"
  /\ \E q \in RaceQueries :
       listVideosRowQuery([page |-> q.page, limit |-> q.limit, category |-> q.category])

RaceListVideosCount ==
  /\ pc.step = "count" /\ pc.route = "GET /api/videos"
  /\ listVideosCountQuery

RaceCreateMaterial ==
  /\ RaceInserted < MaxRaceRows
  /\ \E st \in RaceStatuses :
       postMaterials(Bearer(FreshToken), [MaterialBody EXCEPT !.status = st], NoFiles)

RaceUpdateMaterial ==
  \E id \in RaceIds, st \in RaceStatuses :
    putMaterials(Bearer(FreshToken), id, [MaterialBody EXCEPT !.status = st], NoFiles)

RaceDeleteMaterial == \E id \in RaceIds : deleteMaterials(Bearer(FreshToken), id)

RaceCreateVideo ==
  /\ RaceInserted < MaxRaceRows
  /\ \E st \in RaceStatuses :
       postVideos(Bearer(FreshToken), [VideoBody EXCEPT !.status = st], FALSE, NoFiles)

RaceDeleteVideo == \E id \in RaceIds : deleteVideos(Bearer(FreshToken), id)

NextRace ==
  \/ RaceListMaterialsRows \/ RaceListMaterialsCount
  \/ RaceListVideosRows \/ RaceListVideosCount
  \/ RaceCreateMaterial \/ RaceUpdateMaterial \/ RaceDeleteMaterial
  \/ RaceCreateVideo \/ RaceDeleteVideo

SpecRace == InitRace /\ [][NextRace]_vars

----------------------------------------------------------------------------
\* SpecStatus: material and video writes whose body omits the status or gives
\* a member of the ENUM, the empty string or another string, against a store
\* in strict and in non-strict SQL mode.

MaxStatusRows == 2

StatusIds == 1..MaxStatusRows

StatusInserted == (autoInc.materials - 1) + (autoInc.videos - 1)

BodyStatuses == {NULL, Some(""), Some("published"), Some("draft"), Some("archived")}

InitStatus ==
  /\ admins = {}
  /\ categories = {}
  /\ materials = {}
  /\ videos = {}
  /\ autoInc = [admins |-> 1, categories |-> 1, materials |-> 1, videos |-> 1]
  /\ authorColumn = TRUE
  /\ now = StartClock
  /\ held = NULL
  /\ req = NoRequest
  /\ resp = NoResponse
  /\ pc = <<>>
  /\ boot = Booted
  /\ schema = SchemaObjects
  /\ sqlMode \in SqlModes

StatusCreateMaterial ==
  /\ StatusInserted < MaxStatusRows
  /\ \E st \in BodyStatuses :
       postMaterials(Bearer(FreshToken), [MaterialBody EXCEPT !.status = st], NoFiles)

StatusUpdateMaterial ==
  \E id \in StatusIds, st \in BodyStatuses :
    putMaterials(Bearer(FreshToken), id, [MaterialBody EXCEPT !.status = st], NoFiles)

StatusCreateVideo ==
  /\ StatusInserted < MaxStatusRows
  /\ \E st \in BodyStatuses :
       postVideos(Bearer(FreshToken), [VideoBody EXCEPT !.status = st], FALSE, NoFiles)

StatusUpdateVideo ==
  \E id \in StatusIds, st \in BodyStatuses :
    putVideos(Bearer(FreshToken), id, [VideoBody EXCEPT !.status = st], FALSE, NoFiles)

NextStatus ==
  \/ StatusCreateMaterial \/ StatusUpdateMaterial
  \/ StatusCreateVideo \/ StatusUpdateVideo

SpecStatus == InitStatus /\ [][NextStatus]_vars

----------------------------------------------------------------------------
\* SpecFresh: startServer against a server that holds no database, so that
\* every table is the one initDatabase creates; once the process listens,
\* admin and public requests on materials and categories are served.

MaxFreshRows == 2

InitFresh ==
  /\ admins = {}
  /\ categories = {}
  /\ materials = {}
  /\ videos = {}
  /\ autoInc = [admins |-> 1, categories |-> 1, materials |-> 1, videos |-> 1]
  /\ schema = {}
  /\ authorColumn = FALSE
  /\ now = StartClock
  /\ held = NULL
  /\ req = NoRequest
  /\ resp = NoResponse
  /\ pc = <<>>
  /\ boot = [step |-> "createConnection", exitCode |-> NULL, listening |-> FALSE,
             error |-> NULL]
  /\ sqlMode = StrictMode

FreshCreateCategory ==
  /\ boot.listening
  /\ autoInc.categories <= MaxFreshRows
  /\ \E h \in GateHeaders : postCategories(h, CategoryBody)

FreshCreateMaterial ==
  /\ boot.listening
  /\ autoInc.materials <= MaxFreshRows
  /\ \E h \in GateHeaders, c \in {NULL, Some(1)} :
       postMaterials(h, [MaterialBody EXCEPT !.category_id = c], NoFiles)

FreshAdminMaterials == boot.listening /\ \E h \in GateHeaders : getMaterials(h)

FreshListMaterials ==
  /\ boot.listening
  /\ \E pg \in Pagings, a \in AuthorFilters :
       listMaterials([page |-> pg.page, limit |-> pg.limit, category |-> NULL,
                      author |-> a])

NextFresh ==
  \/ BootConnect \/ BootCreateDatabase \/ BootConnectionEnd \/ BootGetConnection
  \/ BootCreateTable \/ BootRelease \/ BootListen
  \/ FreshCreateCategory \/ FreshCreateMaterial
  \/ FreshAdminMaterials \/ FreshListMaterials

SpecFresh == InitFresh /\ [][NextFresh]_vars

----------------------------------------------------------------------------
\* Properties

\* what the claims call a request's token
HasNoToken(header) == Len(header) < 2 \/ header[2].format = ""

IsMalformed(token) == token.format # "jwt"

IsMisSigned(token) ==
  token.sig # <<JWT_SECRET, token.claims.id, token.claims.email,
                token.claims.iat, token.claims.exp>>

IsExpired(token, t) == t >= token.claims.exp

CarriesValidToken(r) ==
  /\ "header" \in DOMAIN r
  /\ ~HasNoToken(r.header)
  /\ ~IsMalformed(r.header[2])
  /\ ~IsMisSigned(r.header[2])
  /\ ~IsExpired(r.header[2], r.at)

\* C1: a request through authenticateToken with no header or no token gets
\* the gate's 401 and the handler does not run; with a malformed, mis-signed
\* or expired token it gets the gate's 403 and the handler does not run; with
\* a valid unexpired token the handler runs (GET /stats answers with its
\* counts) and req.user carries the token's id and email.
C1_TokenGate ==
  "header" \in DOMAIN req =>
    IF HasNoToken(req.header)
      THEN /\ resp = [status |-> 401, body |-> [error |-> "Access token required"]]
           /\ req.user = NULL
    ELSE IF \/ IsMalformed(req.header[2])
            \/ IsMisSigned(req.header[2])
            \/ IsExpired(req.header[2], req.at)
      THEN /\ resp = [status |-> 403, body |-> [error |-> "Invalid or expired token"]]
           /\ req.user = NULL
    ELSE /\ resp.status = 200
         /\ "categories" \in DOMAIN resp.body
         /\ req.user # NULL
         /\ Val(req.user).id = req.header[2].claims.id
         /\ Val(req.user).email = req.header[2].claims.email

\* C1 witness: a token from a login is accepted hours after it was issued
C1_Witness ==
  /\ "header" \in DOMAIN req
  /\ resp.status = 200
  /\ req.user # NULL
  /\ req.at > Val(req.user).iat
  /\ \E a \in admins : a.id = Val(req.user).id /\ a.email = Val(req.user).email

\* the routes of the admin router that write to the store
GatedWritingRoutes ==
  {"POST /categories", "PUT /categories/:id", "DELETE /categories/:id",
   "POST /materials", "PUT /materials/:id", "DELETE /materials/:id",
   "POST /videos", "PUT /videos/:id", "DELETE /videos/:id"}

WritingRoutes == GatedWritingRoutes \cup {"POST /init", "POST /reset-password"}

\* C2 as stated: a request to any admin route that writes to the store, made
\* without a valid token, is rejected and leaves every table unchanged.
C2_EveryWritingRouteGated ==
  [][ (req'.route \in WritingRoutes /\ ~CarriesValidToken(req'))
        => (resp'.status \in {401, 403} /\ UNCHANGED tables) ]_vars

\* C2 amended: a request without a valid token to a route that creates,
\* updates or deletes categories, materials or videos is rejected with 401 or
\* 403 and leaves every table unchanged.
C2_CrudRoutesGated ==
  [][ (req'.route \in GatedWritingRoutes /\ ~CarriesValidToken(req'))
        => (resp'.status \in {401, 403} /\ UNCHANGED <<tables, autoInc>>) ]_vars

\* C2 witness: a forged token was refused the delete of an existing material
C2_Witness ==
  /\ req.route = "DELETE /materials/:id"
  /\ ~CarriesValidToken(req)
  /\ ~HasNoToken(req.header)
  /\ resp.status = 403
  /\ \E m \in materials : m.id = req.id

\* C6: a login with email and password supplied that fails because no admin
\* has the email, or because the password does not match the admin's hash,
\* gets status 401 and body {error: 'Invalid email or password'} either way.
C6_LoginFailureUniform ==
  (/\ req.route = "POST /login"
   /\ TruthyStr(req.body.email) /\ TruthyStr(req.body.password)
   /\ \/ \A a \in admins : a.email # Val(req.body.email)
      \/ \E a \in admins : /\ a.email = Val(req.body.email)
                           /\ ~bcryptCompare(Val(req.body.password), a.password))
  => resp = [status |-> 401, body |-> [error |-> "Invalid email or password"]]

\* C6 witness: the email matches an admin and the password is wrong
C6_Witness ==
  /\ req.route = "POST /login"
  /\ TruthyStr(req.body.password)
  /\ \E a \in admins : /\ req.body.email = Some(a.email)
                       /\ ~bcryptCompare(Val(req.body.password), a.password)
  /\ resp.status = 401

\* C7: when init has just created the default admin, a login with the default
\* email and password succeeds; its token carries that admin's id and email,
\* expires expiresIn hours after the login, is accepted by authenticateToken
\* at every hour before its expiry and refused at its expiry.
C7_InitThenLogin ==
  [][ (/\ req.route = "POST /init"
       /\ resp.status = 200
       /\ resp.body.message = "Default admin created successfully"
       /\ req'.route = "POST /login"
       /\ req'.body = DefaultCredentials)
      => /\ resp'.status = 200
         /\ LET token == resp'.body.token
            IN  /\ token.claims.id = resp.body.adminId
                /\ token.claims.email = ADMIN_EMAIL
                /\ token.claims.exp = now' + expiresIn
                /\ \A t \in now'..(now' + expiresIn - 1) :
                     /\ authenticateToken(Bearer(token), t).next
                     /\ authenticateToken(Bearer(token), t).user = Some(token.claims)
                /\ ~authenticateToken(Bearer(token), now' + expiresIn).next ]_vars

\* C7 witness: the login after init succeeded
C7_Witness ==
  /\ req.route = "POST /login"
  /\ req.body = DefaultCredentials
  /\ resp.status = 200
  /\ autoInc.admins = 2
  /\ \E a \in admins : a.id = resp.body.admin.id /\ a.email = ADMIN_EMAIL

\* C10: once the admins table holds a row no step of an init call changes it,
\* and when every init call in flight has answered the table holds exactly one
\* row, whatever the interleaving of their SELECTs and INSERTs.
C10_InitIdempotent ==
  /\ [][admins # {} => admins' = admins]_vars
  /\ []((\A p \in InitCalls : pc[p] = "done") => Cardinality(admins) = 1)

\* C10 witness: two calls read an empty table, one inserted, the other's
\* INSERT was refused, and all calls have answered
C10_Witness ==
  /\ \A p \in InitCalls : pc[p] = "done"
  /\ resp.status = 500
  /\ Cardinality(admins) = 1
  /\ \A a \in admins : a.email = ADMIN_EMAIL /\ a.name = "Administrator"

\* the stored name multer gives an uploaded file, under the images directory
WebPathOfImage(f) == <<"/uploads/images/", <<f.fieldname, "-", f.uniqueSuffix, f.ext>>>>

\* C8: a successful update of an existing material leaves its image column as
\* it was when the request uploads no image, and sets it to the web-relative
\* path of the uploaded file when it does; likewise the thumbnail column of a
\* video and the thumbnail upload.
C8_UpdateKeepsOrReplacesPath ==
  [][ /\ (req'.route = "PUT /materials/:id" /\ resp'.status = 200) =>
           \A m \in materials : m.id = req'.id =>
             \E m2 \in materials' :
               /\ m2.id = m.id
               /\ LET up == {f \in req'.files : f.fieldname = "image"}
                  IN  m2.image = IF up = {} THEN m.image
                                 ELSE Some(WebPathOfImage(Val(up)))
      /\ (req'.route = "PUT /videos/:id" /\ resp'.status = 200) =>
           \A v \in videos : v.id = req'.id =>
             \E v2 \in videos' :
               /\ v2.id = v.id
               /\ LET up == {f \in req'.files : f.fieldname = "thumbnail"}
                  IN  v2.thumbnail = IF up = {} THEN v.thumbnail
                                     ELSE Some(WebPathOfImage(Val(up))) ]_vars

\* C8 witness: a material that has an image was updated without an upload and
\* still has it
C8_Witness ==
  /\ req.route = "PUT /materials/:id"
  /\ resp.status = 200
  /\ req.files = {}
  /\ \E m \in materials : m.id = req.id /\ m.image # NULL /\ m.status = "draft"

\* C9: a successful delete of a category removes that category row and no
\* other; every material and video is still present afterwards, the ones that
\* referenced the category with category_id NULL and every other column as it
\* was, the others exactly as they were.
C9_DeleteCategorySetsNull ==
  [][ (req'.route = "DELETE /categories/:id" /\ resp'.status = 200) =>
        /\ categories' = {c \in categories : c.id # req'.id}
        /\ Cardinality(materials') = Cardinality(materials)
        /\ Cardinality(videos') = Cardinality(videos)
        /\ \A r \in materials \cup videos :
             LET after == IF r \in materials THEN materials' ELSE videos'
             IN  IF r.category_id = Some(req'.id)
                   THEN \E r2 \in after :
                          /\ r2.category_id = NULL
                          /\ [r2 EXCEPT !.category_id = r.category_id] = r
                   ELSE r \in after ]_vars

\* C9 witness: a category was deleted and a material and a video that no
\* category owns any more stand next to a row of the remaining category
C9_Witness ==
  /\ req.route = "DELETE /categories/:id"
  /\ resp.status = 200
  /\ Cardinality(categories) = 1
  /\ \E m \in materials : m.category_id = NULL
  /\ \E r \in materials \cup videos : \E c \in categories : r.category_id = Some(c.id)

\* the rows a public response returns
SeqRows(rows) == {rows[i].row : i \in 1..Len(rows)}

ReturnedRows ==
  IF resp.status # 200 THEN {}
  ELSE IF req.route \in {"GET /api/materials/:id", "GET /api/videos/:id"}
    THEN {resp.body.data.row}
  ELSE IF req.route \in {"GET /api/search", "GET /api/latest"}
    THEN SeqRows(resp.body.data.materials) \cup SeqRows(resp.body.data.videos)
  ELSE SeqRows(resp.body.data)

\* C3: no public endpoint returns a row whose status is not 'published', and
\* a detail request for an existing draft material or video answers 404.
C3_PublishedOnly ==
  req.route # "none" =>
    /\ \A r \in ReturnedRows : r.status = "published"
    /\ (/\ req.route = "GET /api/materials/:id"
        /\ \E m \in materials : m.id = req.id /\ m.status = "draft") => resp.status = 404
    /\ (/\ req.route = "GET /api/videos/:id"
        /\ \E v \in videos : v.id = req.id /\ v.status = "draft") => resp.status = 404

\* C3 witness: a listing of a store that holds a draft and a published
\* material returned a row
C3_Witness ==
  /\ req.route = "GET /api/materials"
  /\ \E m \in materials : m.status = "draft"
  /\ ReturnedRows # {}

PaginatedRoutes ==
  {"GET /api/materials", "GET /api/materials/category/:categoryId",
   "GET /api/materials/author/:author", "GET /api/videos",
   "GET /api/videos/category/:categoryId"}

\* the table a listing reads and the filters its request provides
ListedTable ==
  IF req.route \in {"GET /api/videos", "GET /api/videos/category/:categoryId"}
    THEN videos ELSE materials

CategoryFilter ==
  IF "categoryId" \in DOMAIN req THEN Some(req.categoryId)
  ELSE IF "category" \in DOMAIN req.query THEN req.query.category
  ELSE NULL

AuthorFilter ==
  IF "author" \in DOMAIN req THEN Some(req.author)
  ELSE IF "author" \in DOMAIN req.query /\ req.query.author # {<<>>} THEN req.query.author
  ELSE NULL

\* the published rows that match the provided filters
MatchingRows ==
  { r \in ListedTable :
      /\ r.status = "published"
      /\ (CategoryFilter # NULL => r.category_id = CategoryFilter)
      /\ (AuthorFilter # NULL =>
            r.author # NULL /\ Like(Val(r.author), <<"%">> \o Val(AuthorFilter) \o <<"%">>)) }

\* the rows the request's row query and count query select
RowQuerySelects ==
  CASE req.route = "GET /api/materials" ->
         {m \in materials : materialsRowWhere(m, req.query)}
    [] req.route = "GET /api/materials/category/:categoryId" ->
         {m \in materials : materialsByCategoryRowWhere(m, req.categoryId)}
    [] req.route = "GET /api/materials/author/:author" ->
         {m \in materials : materialsByAuthorRowWhere(m, req.author)}
    [] req.route = "GET /api/videos" ->
         {v \in videos : videosRowWhere(v, req.query)}
    [] req.route = "GET /api/videos/category/:categoryId" ->
         {v \in videos : videosByCategoryRowWhere(v, req.categoryId)}

CountQuerySelects ==
  CASE req.route = "GET /api/materials" ->
         {m \in materials : materialsCountWhere(m, req.query)}
    [] req.route = "GET /api/materials/category/:categoryId" ->
         {m \in materials : materialsByCategoryCountWhere(m, req.categoryId)}
    [] req.route = "GET /api/materials/author/:author" ->
         {m \in materials : materialsByAuthorCountWhere(m, req.author)}
    [] req.route = "GET /api/videos" ->
         {v \in videos : videosCountWhere(v, req.query)}
    [] req.route = "GET /api/videos/category/:categoryId" ->
         {v \in videos : videosByCategoryCountWhere(v, req.categoryId)}

RequestedPage == IF req.query.page = NULL THEN 1 ELSE Val(req.query.page)

RequestedLimit == IF req.query.limit = NULL THEN 10 ELSE Val(req.query.limit)

\* C4: in the response of each paginated listing, for each combination of
\* provided filters (limit >= 1), the count query selects the rows the row
\* query selects,
\* pagination.total is the number of published rows matching the filters, and
\* pagination.pages is the least integer not below total / limit.
C4_CountMirrorsRows ==
  (req.route \in PaginatedRoutes /\ resp.status = 200) =>
    LET pg == resp.body.pagination
    IN  /\ CountQuerySelects = RowQuerySelects
        /\ RowQuerySelects = MatchingRows
        /\ pg.total = Cardinality(MatchingRows)
        /\ SeqRows(resp.body.data) \subseteq MatchingRows
        /\ pg.limit = RequestedLimit
        /\ pg.pages * pg.limit >= pg.total
        /\ (pg.pages - 1) * pg.limit < pg.total \/ (pg.pages = 0 /\ pg.total = 0)

\* C4 witness: a listing filtered by category and by author counted one of
\* two published materials
C4_Witness ==
  /\ req.route = "GET /api/materials"
  /\ resp.status = 200
  /\ req.query.category # NULL /\ req.query.author # NULL
  /\ resp.body.pagination.total = 1
  /\ Len(resp.body.data) = 1
  /\ Cardinality({m \in materials : m.status = "published"}) = 2

\* C5: the response of GET /materials with page p >= 1 and limit l >= 1
\* (defaults 1 and 10) holds the rows at positions (p-1)*l + 1 .. (p-1)*l + l
\* of an arrangement of the
\* published, filter-matching materials by creation time, newest first
\* (fewer when the arrangement is shorter), with
\* pagination {total, page: p, limit: l, pages: ceil(total / l)}.
C5_PageIsSlice ==
  (req.route = "GET /api/materials" /\ resp.status = 200) =>
    LET data == resp.body.data
        first == (RequestedPage - 1) * RequestedLimit
        total == Cardinality(MatchingRows)
        rest == IF total > first THEN total - first ELSE 0
        Newer(r) == {x \in MatchingRows : x.created_at > r.created_at}
        NotOlder(r) == {x \in MatchingRows : x.created_at >= r.created_at}
    IN  /\ Len(data) = IF rest < RequestedLimit THEN rest ELSE RequestedLimit
        /\ \A i \in 1..Len(data) :
             /\ data[i].row \in MatchingRows
             /\ Cardinality(Newer(data[i].row)) <= first + i - 1
             /\ Cardinality(NotOlder(data[i].row)) >= first + i
             /\ \A j \in 1..Len(data) : i # j => data[i].row.id # data[j].row.id
        /\ resp.body.pagination.total = total
        /\ resp.body.pagination.page = RequestedPage
        /\ resp.body.pagination.limit = RequestedLimit
        /\ resp.body.pagination.pages * RequestedLimit >= total
        /\ resp.body.pagination.pages * RequestedLimit < total + RequestedLimit

\* C5 witness: 12 published materials, page=2 and limit=5 return 5 rows and
\* pagination {total: 12, page: 2, limit: 5, pages: 3}
C5_Witness ==
  /\ req.route = "GET /api/materials"
  /\ req.query.page = Some(2) /\ req.query.limit = Some(5)
  /\ Cardinality({m \in materials : m.status = "published"}) = 12
  /\ Len(resp.body.data) = 5
  /\ resp.body.pagination = [total |-> 12, page |-> 2, limit |-> 5, pages |-> 3]
  /\ resp.body.data[1].row.created_at = 7

\* term occurs in str, letter case ignored
ContainsTerm(str, term) ==
  \E i \in 1..(Len(str) - Len(term) + 1) :
    \A k \in 1..Len(term) : Lower(str[i + k - 1]) = Lower(term[k])

\* the published materials and videos a search term matches
MaterialsMatchingTerm(term, category) ==
  { m \in materials :
      /\ m.status = "published"
      /\ \/ ContainsTerm(m.title, term)
         \/ ContainsTerm(m.content, term)
         \/ (m.author # NULL /\ ContainsTerm(Val(m.author), term))
      /\ (category # NULL => m.category_id = category) }

VideosMatchingTerm(term, category) ==
  { v \in videos :
      /\ v.status = "published"
      /\ (ContainsTerm(v.title, term) \/ ContainsTerm(v.description, term))
      /\ (category # NULL => v.category_id = category) }

\* what C11 says of a search with a non-empty q
SearchSucceeds ==
  LET q == req.query.q
      type == req.query.type
  IN  /\ resp.status = 200
      /\ resp.body.success = TRUE
      /\ DOMAIN resp.body.data = {"materials", "videos"}
      /\ SeqRows(resp.body.data.materials)
           \subseteq MaterialsMatchingTerm(Val(q), req.query.category)
      /\ SeqRows(resp.body.data.videos)
           \subseteq VideosMatchingTerm(Val(q), req.query.category)
      /\ type = Some("materials") => resp.body.data.videos = <<>>
      /\ type = Some("videos") => resp.body.data.materials = <<>>
      /\ (type # Some("videos") /\ MaterialsMatchingTerm(Val(q), req.query.category) # {})
           => resp.body.data.materials # <<>>
      /\ (type # Some("materials") /\ VideosMatchingTerm(Val(q), req.query.category) # {})
           => resp.body.data.videos # <<>>

\* C11: GET /search with q missing or empty answers 400 whatever the store
\* holds; with a non-empty q it answers 200 with success true and data
\* {materials, videos} holding only rows that contain q, where type=materials
\* leaves videos empty, type=videos leaves materials empty, and a kind
\* without a match is an empty array.
C11_SearchContract ==
  req.route = "GET /api/search" =>
    LET q == req.query.q
    IN  /\ (q = NULL \/ q = Some(<<>>)) =>
             /\ resp.status = 400
             /\ resp.body = [success |-> FALSE, error |-> "Search query is required"]
        /\ (q # NULL /\ q # Some(<<>>)) => SearchSucceeds

\* the search contract on a store whose materials table has the author
\* column, and for searches of the videos alone
SearchContractWhereQueryRuns ==
  (/\ req.route = "GET /api/search"
   /\ req.query.q # NULL /\ req.query.q # Some(<<>>)
   /\ (authorColumn \/ req.query.type = Some("videos"))) => SearchSucceeds

\* a search of the materials on a table without the author column, answered
\* 500
C11_SearchFailed ==
  /\ req.route = "GET /api/search"
  /\ req.query.q = Some(<<"s">>) /\ req.query.type = NULL
  /\ ~authorColumn
  /\ resp.status = 500

\* C11 witness: a search of the videos for a term no published video contains,
\* on a store that holds a published video, answered success with both
\* arrays empty
C11_Witness ==
  /\ req.route = "GET /api/search"
  /\ req.query.q = Some(<<"z">>) /\ req.query.type = Some("videos")
  /\ \E v \in videos : v.status = "published"
  /\ resp.status = 200
  /\ resp.body.success = TRUE
  /\ resp.body.data = [materials |-> <<>>, videos |-> <<>>]

\* C12: the server listens only when the database and all four tables exist
\* and no step of the initialization failed; a failed step makes the process
\* exit with code 1 without listening, and an exited process takes no
\* further step.
C12_ListenAfterSchema ==
  /\ [](boot.listening =>
          /\ schema = SchemaObjects
          /\ boot.error = NULL
          /\ boot.exitCode = NULL)
  /\ [](boot.error # NULL => (boot.exitCode = Some(1) /\ ~boot.listening))
  /\ [][boot.exitCode # NULL => boot' = boot]_vars

\* C12 witness: the process exited with code 1 after creating the database
\* and the admins table but not the videos table
C12_Witness ==
  /\ boot.exitCode = Some(1)
  /\ boot.error = Some("ER_CANT_CREATE_TABLE")
  /\ ~boot.listening
  /\ {"database", "admins"} \subseteq schema
  /\ "videos" \notin schema

UploadRoutes == {"POST /materials", "PUT /materials/:id", "POST /videos", "PUT /videos/:id"}

\* a file whose MIME type is not the one its field takes
MimeMismatch(f) ==
  \/ f.fieldname = "video" /\ f.mimetype.type # "video"
  \/ f.fieldname \in {"image", "thumbnail"} /\ f.mimetype.type # "image"

\* C13: a material or video create or update that passed the token gate and
\* uploads a file whose MIME type does not match its field fails (500) and
\* leaves the materials and videos tables as they were; the same request
\* without a valid token gets the gate's 401 or 403, not the upload's error.
C13_MimeRejectedBeforeWrite ==
  [][ (req'.route \in UploadRoutes /\ \E f \in req'.files : MimeMismatch(f)) =>
        /\ UNCHANGED <<materials, videos, autoInc>>
        /\ IF CarriesValidToken(req')
             THEN resp'.status = 500
             ELSE resp' \in {GateResp(Gate401), GateResp(Gate403)} ]_vars

\* C13 witness: an update of a stored video by a token holder, uploading a
\* proper video next to a video in the thumbnail field, answered 500
C13_Witness ==
  /\ req.route = "PUT /videos/:id"
  /\ CarriesValidToken(req)
  /\ \E v \in videos : v.id = req.id
  /\ \E f \in req.files : MimeMismatch(f)
  /\ \E f \in req.files : ~MimeMismatch(f)
  /\ resp.status = 500

RacedRoutes == {"GET /api/materials", "GET /api/videos"}

\* the published rows of the listed table that match a query's category filter
PublishedMatching(route, query) ==
  { r \in (IF route = "GET /api/videos" THEN videos ELSE materials) :
      /\ r.status = "published"
      /\ (query.category # NULL => r.category_id = query.category) }

Least(a, b) == IF a < b THEN a ELSE b

\* C14 as claimed: the total a listing reports is the number of matching
\* rows of the store state its rows were read from, so the page holds
\* min(limit, total - offset) rows (none when offset >= total).
C14_TotalConsistentWithPage ==
  (req.route \in RacedRoutes /\ resp.status = 200) =>
    LET pg == resp.body.pagination
        first == (pg.page - 1) * pg.limit
    IN  Len(resp.body.data) =
          Least(pg.limit, IF pg.total > first THEN pg.total - first ELSE 0)

\* C14 amended: the rows of a listing are a page of the published matching
\* rows of the store at the row query, and its total is the number of
\* published matching rows of the store at the count query, with pages the
\* least integer not below total / limit; writes served between the two
\* queries show in the total and not in the rows.
C14_TotalIsCountAtCountQuery ==
  /\ [][ (pc.step = "idle" /\ pc'.step = "count") =>
           LET M == PublishedMatching(pc'.route, pc'.query)
           IN  /\ SeqRows(pc'.rows) \subseteq M
               /\ Len(pc'.rows) = Least(limitOf(pc'.query), Cardinality(M))
               /\ UNCHANGED <<req, resp>> ]_vars
  /\ [][ (pc.step = "count" /\ pc'.step = "idle") =>
           LET M == PublishedMatching(pc.route, pc.query)
               pg == resp'.body.pagination
           IN  /\ req'.route = pc.route
               /\ resp'.status = 200
               /\ resp'.body.data = pc.rows
               /\ pg.total = Cardinality(M)
               /\ pg.pages * pg.limit >= pg.total
               /\ pg.pages * pg.limit < pg.total + pg.limit ]_vars

\* C14 witness: a listing with the default limit returned the one row read
\* by its row query and a total of two, a material having been created
\* before its count query
C14_Witness ==
  /\ req.route = "GET /api/materials"
  /\ resp.status = 200
  /\ Len(resp.body.data) = 1
  /\ resp.body.pagination.total = 2
  /\ resp.body.pagination.limit = 10
  /\ Cardinality(materials) = 2

\* C15: a successful PUT /videos/:id whose body supplies a video_url and
\* which uploads no video file leaves the row with the supplied title,
\* description and video_url, whether or not the request is multipart and
\* whether or not it uploads a thumbnail.
C15_VideoUrlOverwritten ==
  [][ (/\ req'.route = "PUT /videos/:id"
       /\ resp'.status = 200
       /\ req'.body.video_url # NULL
       /\ \A f \in req'.files : f.fieldname # "video") =>
        \A v \in videos' : v.id = req'.id =>
          /\ v.title = Val(req'.body.title)
          /\ v.description = Val(req'.body.description)
          /\ v.video_url = Val(req'.body.video_url) ]_vars

\* a multipart update that supplied a video_url and a thumbnail file and
\* no video file succeeded, and the row still has the path of the video file
\* uploaded at its creation
C15_VideoUrlKept ==
  /\ req.route = "PUT /videos/:id"
  /\ resp.status = 200
  /\ req.multipart
  /\ req.body.video_url = Some(<<"https://v/", "1">>)
  /\ \E f \in req.files : f.fieldname = "thumbnail"
  /\ \A f \in req.files : f.fieldname # "video"
  /\ \E v \in videos : v.id = req.id /\ v.video_url[1] = "/uploads/videos/"

StatusRoutes == {"POST /materials", "PUT /materials/:id", "POST /videos", "PUT /videos/:id"}

\* the row a create or update request wrote
WrittenRows ==
  IF req.route = "POST /materials" THEN {m \in materials : m.id = resp.body.id}
  ELSE IF req.route = "PUT /materials/:id" THEN {m \in materials : m.id = req.id}
  ELSE IF req.route = "POST /videos" THEN {v \in videos : v.id = resp.body.id}
  ELSE {v \in videos : v.id = req.id}

\* every stored material and video has a status of the enumeration
StatusInEnum == \A r \in materials \cup videos : r.status \in StatusEnum

\* a request that omits the status stores 'published'
OmittedStatusStoresPublished ==
  (req.route \in StatusRoutes /\ resp.status = 200 /\ req.body.status = NULL) =>
    \A r \in WrittenRows : r.status = "published"

\* a request with a status outside the enumeration does not store that value
OtherStatusNotStored ==
  (/\ req.route \in StatusRoutes
   /\ resp.status = 200
   /\ req.body.status # NULL
   /\ Val(req.body.status) \notin StatusEnum) =>
    \A r \in WrittenRows : r.status # Val(req.body.status)

\* C16: after any sequence of admin create and update requests with the
\* status omitted, 'published', 'draft' or another string, every stored
\* material and video has status 'published' or 'draft'; a request that omits
\* the status stores 'published', and a request with another value does not
\* store that value.
C16_StatusAlwaysInEnum ==
  /\ StatusInEnum
  /\ OmittedStatusStoresPublished
  /\ OtherStatusNotStored

\* a create request with status 'archived' was answered 200 by a store in
\* non-strict mode and its row holds the error value ''
C16_ErrorValueStored ==
  /\ req.route = "POST /videos"
  /\ req.body.status = Some("archived")
  /\ resp.status = 200
  /\ sqlMode # StrictMode
  /\ \E v \in videos : v.id = resp.body.id /\ v.status = ""

\* C17: a token issued by a successful login is accepted by the token gate
\* at every moment before 24 hours have passed since it was issued, whatever
\* requests were served in between (reset-password for its admin, further
\* logins, other operations), and gets the gate's 403 at every moment from
\* then on; the outcome depends on the token and the clock only.
C17_TokenAcceptedUntilExpiry ==
  /\ \A t \in held :
       LET g == authenticateToken(Bearer(t), now)
       IN  IF now < t.claims.iat + expiresIn
             THEN g.next /\ g.user = Some(t.claims)
             ELSE g = Gate403
  /\ ("header" \in DOMAIN req /\ \E t \in held : req.header = Bearer(t)) =>
       resp.status = IF req.at < req.header[2].claims.iat + expiresIn
                       THEN 200 ELSE 403

\* C17 witness: GET /stats accepted a token although its admin's password was
\* reset and a later login issued another token
C17_Witness ==
  /\ "header" \in DOMAIN req
  /\ resp.status = 200
  /\ \E t \in held :
       /\ req.header = Bearer(t)
       /\ \E t2 \in held : t2.claims.iat > t.claims.iat
       /\ \E a \in admins : /\ a.id = t.claims.id
                            /\ ~bcryptCompare(ADMIN_PASSWORD, a.password)

\* the ids of the rows a paginated response carries
DataIds == {resp.body.data[i].id : i \in 1..Len(resp.body.data)}

\* C18: on a store whose tables were created by initDatabase, an authenticated
\* POST /materials with title and content and nothing else succeeds and
\* inserts exactly one row with author, category_id and image null and status
\* 'published'; the admin list then returns every stored material and the
\* public list, unfiltered and with default paging, every published one.
C18_FreshCreateMaterialSucceeds ==
  /\ (/\ req.route = "POST /materials"
      /\ req.user # NULL
      /\ req.body = MaterialBody
      /\ req.files = NoFiles) =>
       /\ resp.status = 200
       /\ Cardinality({m \in materials : m.id = resp.body.id}) = 1
       /\ \A m \in materials :
            m.id = resp.body.id =>
              /\ m.author = NULL /\ m.category_id = NULL /\ m.image = NULL
              /\ m.status = "published"
  /\ (req.route = "GET /materials" /\ req.user # NULL) =>
       resp = OkResp(materials)
  /\ (/\ req.route = "GET /api/materials"
      /\ req.query = [page |-> NULL, limit |-> NULL, category |-> NULL, author |-> NULL]) =>
       /\ resp.status = 200
       /\ Cardinality(materials) <= DefaultLimit =>
            DataIds = {m.id : m \in {x \in materials : x.status = "published"}}

\* the create request of C18, authenticated, was answered 500 by a process
\* that listens on the schema it created, and the table stays empty
C18_CreateFailed ==
  /\ boot.listening
  /\ schema = SchemaObjects
  /\ req.route = "POST /materials"
  /\ req.user # NULL
  /\ req.body = MaterialBody
  /\ resp.status = 500
  /\ materials = {}

====
